---------------------------- MODULE Spec2Model ----------------------------
(***************************************************************************)
(* A model of the local git repository handle of werf (package git_repo): *)
(* symlink-aware resolution of a path inside a commit tree, the query      *)
(* surface built on it (read, existence probes), and the validation of     *)
(* the working-tree status against a path matcher, the list of the status  *)
(* paths, the two mutexes of the handle under concurrent callers, and the  *)
(* opening of the handle with its host lock and head commit, and the walk  *)
(* and glob operations over a directory of the commit tree.                *)
(* Beside the handle: the on-demand Kubernetes initializer, the first-run  *)
(* timestamp file, and the garbage collection of the local docker server.  *)
(*                                                                         *)
(* A slash-separated path string is represented by the sequence of its     *)
(* components: "b/c" is <<"b", "c">>, the string "." (what path.Join and   *)
(* path.Dir give for an empty path) is <<>>, and an absolute path starts   *)
(* with the component "/".                                                 *)
(***************************************************************************)
EXTENDS Integers, Sequences, FiniteSets, TLC

VARIABLES
    tree,      \* the commit tree the handle reads: path -> [mode, data]
    phase,     \* "ready" before the call on the handle, "returned" after it
    ret,       \* what the call returned
    status,    \* the memoized status.Result of the handle
    matcher,   \* the path matcher passed to the status operations
    vret,      \* what the status operation returned
    handle,    \* the fields of Local the goroutines share: mutexes, statusResult
    threads,   \* per goroutine: the method it is in and where it is in it
    open,      \* the OpenLocalRepo call: its position, the host lock, the handle
    walk,      \* the WalkCommitFiles call: its active walks, the callback calls
    kube,      \* the OndemandKubeInitializer and the calls of Init made on it
    firstRun,  \* the first-run timestamp file, its host lock, the processes
    gc,        \* the RunGCForLocalDockerServer call and the docker server
    cleanup    \* the safeContainersCleanup call: its containers, what it did

vars == <<tree, phase, ret, status, matcher, vret, handle, threads, open, walk,
          kube, firstRun, gc, cleanup>>

----------------------------------------------------------------------------
(* Bounds of the model. *)

\* longest path (in components) passed to a query operation
MaxPathLen == 2

(* Program constants. *)

\* if depth > 1000 { return "", fmt.Errorf("too many levels of symbolic links") }
MaxSymlinkDepth == 1000

----------------------------------------------------------------------------
(* path.Clean, path.Join, path.Dir, path.IsAbs on component sequences. *)

RECURSIVE CleanFrom(_, _, _)
\* path.Clean of a relative path: drop ".", let ".." cancel the component
\* before it, keep a leading "..".
CleanFrom(parts, i, out) ==
    IF i > Len(parts) THEN out
    ELSE LET c == parts[i] IN
         IF c = "." \/ c = "" THEN CleanFrom(parts, i + 1, out)
         ELSE IF c = ".."
              THEN IF Len(out) > 0 /\ out[Len(out)] # ".."
                   THEN CleanFrom(parts, i + 1, SubSeq(out, 1, Len(out) - 1))
                   ELSE CleanFrom(parts, i + 1, Append(out, ".."))
              ELSE CleanFrom(parts, i + 1, Append(out, c))

PathJoin(a, b) == CleanFrom(a \o b, 1, <<>>)

PathDir(p) == IF Len(p) = 0 THEN <<>> ELSE SubSeq(p, 1, Len(p) - 1)

PathIsAbs(p) == Len(p) > 0 /\ p[1] = "/"

\* util.SplitFilepath: the components of the path; "." has the one component ".".
SplitFilepath(p) == IF Len(p) = 0 THEN <<".">> ELSE p

----------------------------------------------------------------------------
(* Commit tree entries. *)

FileModes == {"Regular", "Executable", "Deprecated", "Dir", "Submodule",
              "Symlink", "Malformed"}

IsMalformed(mode) == mode = "Malformed"

\* ls_tree.Result.LsTreeEntry: the entry at exactly this path, Malformed if none.
LsTreeEntry(t, path) ==
    IF path \in DOMAIN t THEN t[path] ELSE [mode |-> "Malformed", data |-> <<>>]

\* ls_tree.Result.LsTreeEntryContent: the blob of the entry.
LsTreeEntryContent(t, relPath) == LsTreeEntry(t, relPath).data

\* Faulty variant: the listing leaves tree entries out, as ls-tree does without -t
getCommitTreeEntry_NoTrees(t, path) ==
    IF LsTreeEntry(t, path).mode = "Dir"
    THEN [mode |-> "Malformed", data |-> <<>>]
    ELSE LsTreeEntry(t, path)

getCommitTreeEntry(t, path) == LsTreeEntry(t, path)

ReadCommitTreeEntryContent(t, relPath) == LsTreeEntryContent(t, relPath)

----------------------------------------------------------------------------
(* Errors: the Go type of the error value and the path its message quotes. *)

ErrNil == [type |-> "nil", arg |-> <<>>]

treeEntryNotFoundInRepoErr(p) == [type |-> "treeEntryNotFoundInRepoErr", arg |-> p]

ErrTooManyLevels == [type |-> "error", arg |-> <<>>]

\* the error returned by the caller's checkSymlinkTargetFunc
ErrCheckFailed(p) == [type |-> "checkError", arg |-> p]

\* fmt.Errorf("...: %s", err): a plain error, the type of err is lost
Wrapped(p) == [type |-> "error", arg |-> p]

\* Faulty variant: the type switch never matches
IsTreeEntryNotFoundInRepoErr_Never(err) == FALSE

\* Faulty variant: every error counts as not found
IsTreeEntryNotFoundInRepoErr_Always(err) == err.type # "nil"

IsTreeEntryNotFoundInRepoErr(err) == err.type = "treeEntryNotFoundInRepoErr"

----------------------------------------------------------------------------
(* checkSymlinkTargetFunc: "nil" is no hook; the others are hooks that    *)
(* accept every target, reject every target, or reject the targets below. *)

CheckFuncs == {"nil", "accept", "reject", "rejectSome"}

RejectedTargets == {<<"b", "c">>, <<"b", "l">>}

\* Faulty variant: the error the hook returns is dropped
checkSymlinkTargetFunc_ErrorDropped(check, resolvedLink) == ErrNil

checkSymlinkTargetFunc(check, resolvedLink) ==
    IF check = "reject" \/ (check = "rejectSome" /\ resolvedLink \in RejectedTargets)
    THEN ErrCheckFailed(resolvedLink)
    ELSE ErrNil

----------------------------------------------------------------------------
(* resolveCommitFilePath, as the machine that executes it: the stack holds *)
(* one frame per active call that has entered its component walk           *)
(* (pathParts, the loop index ind, the accumulated resolvedPath, and the   *)
(* depth after depth++).  A run records the returned path and error, the   *)
(* return statement taken (site), and the log of what was done on the way: *)
(* each symlink read, each hook call, each target followed.                *)

Ev(kind, at, link, target) == [ev |-> kind, at |-> at, link |-> link, target |-> target]

Res(path, err, site, log) == [path |-> path, err |-> err, site |-> site, log |-> log]

Frame(pathParts, ind, resolvedPath, depth) ==
    [pathParts |-> pathParts, ind |-> ind, resolvedPath |-> resolvedPath, depth |-> depth]

Running(stack, log) == [done |-> FALSE, stack |-> stack, res |-> Res(<<>>, [type |-> "nil", arg |-> <<>>], "none", log)]

\* every active call returns "", err unchanged
Failed(err, site, log) == [done |-> TRUE, stack |-> <<>>, res |-> Res(<<>>, err, site, log)]

\* Faulty variant: the result of the recursive call ends the walk, the
\* components after the symlink are not joined to it
ReturnTo_DropsRest(stack, path, site, log) ==
    IF Len(stack) = 0
    THEN [done |-> TRUE, stack |-> <<>>, res |-> Res(path, ErrNil, site, log)]
    ELSE LET f == stack[Len(stack)] IN
         Running([stack EXCEPT ![Len(stack)] =
                      Frame(f.pathParts,
                            IF site = "accepted" THEN f.ind + 1
                            ELSE Len(f.pathParts) + 1,
                            path, f.depth)], log)

\* Faulty variant: resolvedPath = filepath.Join(resolvedPath, resolvedTarget)
ReturnTo_AppendsToPrefix(stack, path, site, log) ==
    IF Len(stack) = 0
    THEN [done |-> TRUE, stack |-> <<>>, res |-> Res(path, ErrNil, site, log)]
    ELSE LET f == stack[Len(stack)] IN
         Running([stack EXCEPT ![Len(stack)] =
                      Frame(f.pathParts, f.ind + 1,
                            IF site = "accepted" THEN path
                            ELSE PathJoin(f.resolvedPath, path),
                            f.depth)], log)

\* a call returns path, nil to the walk that made it (resolvedPath = resolvedTarget),
\* or to the caller of the outermost call
ReturnTo(stack, path, site, log) ==
    IF Len(stack) = 0
    THEN [done |-> TRUE, stack |-> <<>>, res |-> Res(path, ErrNil, site, log)]
    ELSE LET f == stack[Len(stack)] IN
         Running([stack EXCEPT ![Len(stack)] =
                      Frame(f.pathParts, f.ind + 1, path, f.depth)], log)

\* Faulty variant: the limit is twice as high
DepthExceeded_Twice(depth) == depth > 2 * MaxSymlinkDepth

\* Faulty variant: depth >= 1000
DepthExceeded_OffByOne(depth) == depth >= MaxSymlinkDepth

\* if depth > 1000
DepthExceeded(depth) == depth > MaxSymlinkDepth

\* Faulty variant: only strings.HasPrefix(resolvedLink, "../")
EscapesRepository_PrefixOnly(resolvedLink) ==
    Len(resolvedLink) > 1 /\ resolvedLink[1] = ".."

\* if resolvedLink == ".." || strings.HasPrefix(resolvedLink, "../")
EscapesRepository(resolvedLink) ==
    \/ resolvedLink = <<"..">>
    \/ Len(resolvedLink) > 1 /\ resolvedLink[1] = ".."

\* Faulty variant: if !lsTreeEntry.Mode.IsMalformed()
FastPathAccepts_NoSymlinkCheck(mode) == ~IsMalformed(mode)

\* if lsTreeEntry.Mode != filemode.Symlink && !lsTreeEntry.Mode.IsMalformed()
FastPathAccepts(mode) == mode # "Symlink" /\ ~IsMalformed(mode)

\* a call resolveCommitFilePath(path, depth) made with these frames below it:
\* the depth check, depth++, the probe of the exact path, then the walk
EnterResolve(t, stack, path, depth, log) ==
    IF DepthExceeded(depth) THEN Failed(ErrTooManyLevels, "depth", log)
    ELSE IF FastPathAccepts(getCommitTreeEntry(t, path).mode)
    THEN ReturnTo(stack, path, "fastpath", log)
    ELSE Running(Append(stack, Frame(SplitFilepath(path), 1, <<>>, depth + 1)), log)

\* one iteration of the for loop of the innermost call (or its return after the loop)
WalkStep(t, check, c) ==
    LET f == c.stack[Len(c.stack)]
        below == SubSeq(c.stack, 1, Len(c.stack) - 1)
        log == c.res.log
    IN
    IF f.ind > Len(f.pathParts) THEN ReturnTo(below, f.resolvedPath, "walked", log)
    ELSE
    LET pathToResolve == PathJoin(f.resolvedPath, <<f.pathParts[f.ind]>>)
        mode == getCommitTreeEntry(t, pathToResolve).mode
    IN
    IF IsMalformed(mode)
    THEN Failed(treeEntryNotFoundInRepoErr(pathToResolve), "missing", log)
    ELSE IF mode = "Symlink"
    THEN LET link == ReadCommitTreeEntryContent(t, pathToResolve)
             resolvedLink == PathJoin(PathDir(pathToResolve), link)
             log1 == Append(log, Ev("read", pathToResolve, link, <<>>))
         IN
         IF PathIsAbs(link)
         THEN Failed(treeEntryNotFoundInRepoErr(link), "absolute", log1)
         ELSE IF EscapesRepository(resolvedLink)
         THEN Failed(treeEntryNotFoundInRepoErr(link), "escape", log1)
         ELSE
         LET checkErr == IF check # "nil"
                         THEN checkSymlinkTargetFunc(check, resolvedLink)
                         ELSE ErrNil
             log2 == IF check # "nil"
                     THEN Append(log1, Ev("check", pathToResolve, link, resolvedLink))
                     ELSE log1
         IN
         IF checkErr # ErrNil
         THEN Failed(checkErr, "check", log2)
         ELSE EnterResolve(t, c.stack, resolvedLink, f.depth,
                           Append(log2, Ev("follow", pathToResolve, link, resolvedLink)))
    ELSE ReturnTo(c.stack, pathToResolve, "accepted", log)

\* no resolution of the trees below takes more machine steps than this
MaxSteps == 65536

RECURSIVE RunSteps(_, _, _, _)
\* n steps of the machine, or fewer when it is done before
RunSteps(t, check, c, n) ==
    IF c.done \/ n = 0 THEN c
    ELSE IF n = 1 THEN WalkStep(t, check, c)
    ELSE RunSteps(t, check, RunSteps(t, check, c, n \div 2), n - (n \div 2))

resolveCommitFilePath(t, path, depth, check) ==
    RunSteps(t, check, EnterResolve(t, <<>>, path, depth, <<>>), MaxSteps).res

ResolveCommitFilePath(t, path) == resolveCommitFilePath(t, path, 0, "nil")

ResolveAndCheckCommitFilePath(t, path, check) ==
    resolveCommitFilePath(t, path, 0, check)
----------------------------------------------------------------------------
(* readCommitFile and the existence probes. *)

\* Faulty variant: reads the entry at path, not at resolvedPath
readCommitFile_Unresolved(t, path) ==
    LET r == ResolveCommitFilePath(t, path) IN
    IF r.err # ErrNil
    THEN [data |-> <<>>, err |-> Wrapped(path)]
    ELSE [data |-> ReadCommitTreeEntryContent(t, path), err |-> ErrNil]

\* [data, err] of ReadCommitFile
readCommitFile(t, path) ==
    LET r == ResolveCommitFilePath(t, path) IN
    IF r.err # ErrNil
    THEN [data |-> <<>>, err |-> Wrapped(path)]
    ELSE [data |-> ReadCommitTreeEntryContent(t, r.path), err |-> ErrNil]

\* Faulty variant: the mode is read at path, not at resolvedPath
checkCommitFileMode_Unresolved(t, path, expectedFileModeList) ==
    LET r == ResolveCommitFilePath(t, path) IN
    IF r.err # ErrNil
    THEN IF IsTreeEntryNotFoundInRepoErr(r.err)
         THEN [exist |-> FALSE, err |-> ErrNil]
         ELSE [exist |-> FALSE, err |-> Wrapped(path)]
    ELSE [exist |-> getCommitTreeEntry(t, path).mode \in expectedFileModeList,
          err |-> ErrNil]

\* [exist, err] of checkCommitFileMode
checkCommitFileMode(t, path, expectedFileModeList) ==
    LET r == ResolveCommitFilePath(t, path) IN
    IF r.err # ErrNil
    THEN IF IsTreeEntryNotFoundInRepoErr(r.err)
         THEN [exist |-> FALSE, err |-> ErrNil]
         ELSE [exist |-> FALSE, err |-> Wrapped(path)]
    ELSE [exist |-> getCommitTreeEntry(t, r.path).mode \in expectedFileModeList,
          err |-> ErrNil]

isCommitFileExist(t, path) ==
    checkCommitFileMode(t, path, {"Regular", "Deprecated", "Executable"})

isCommitDirectoryExist(t, path) ==
    checkCommitFileMode(t, path, {"Dir", "Submodule"})

----------------------------------------------------------------------------
(* The working-tree status and its validation.  A status.Result has the    *)
(* untracked paths and the Worktree and Index scopes; a scope has a path   *)
(* list and a list of submodules, each a path with six flags.  A path      *)
(* matcher is the set of paths IsPathMatched accepts and the set of paths  *)
(* IsDirOrSubmodulePathMatched accepts.                                    *)

Scope(pathList, submodules) == [PathList |-> pathList, Submodules |-> submodules]

RECURSIVE AddNewStringsToStringArray(_, _)
\* util.AddNewStringsToStringArray: append the strings that are not in the array yet
AddNewStringsToStringArray(array, new) ==
    IF Len(new) = 0 THEN array
    ELSE AddNewStringsToStringArray(
             IF \E i \in 1 .. Len(array) : array[i] = new[1]
             THEN array ELSE Append(array, new[1]),
             Tail(new))

\* status.Result.IndexWithWorktree: the union of the Index and Worktree scopes
IndexWithWorktree(st) ==
    Scope(AddNewStringsToStringArray(
              AddNewStringsToStringArray(<<>>, st.Index.PathList), st.Worktree.PathList),
          st.Index.Submodules \o st.Worktree.Submodules)

IsPathMatched(m, path) == path \in m.paths

IsDirOrSubmodulePathMatched(m, path) == path \in m.dirs

Violation(kind, pathList, submodulePath) ==
    [kind |-> kind, PathList |-> pathList, SubmodulePath |-> submodulePath]

NoViolation == Violation("nil", <<>>, "")

\* Faulty variant: the loop stops after the first untracked path
matchedPaths_FirstOnly(m, pathList) ==
    IF Len(pathList) > 0 /\ IsPathMatched(m, pathList[1]) THEN <<pathList[1]>> ELSE <<>>

\* Faulty variant: the loop appends every path, matched or not
matchedPaths_Unfiltered(m, pathList) == pathList

\* for _, path := range pathList { if pathMatcher.IsPathMatched(path) { append } }
matchedPaths(m, pathList) == SelectSeq(pathList, LAMBDA path : IsPathMatched(m, path))

\* Faulty variant: the early return tests the other option
stopAfterUntracked_OtherOption(opts) == opts.OnlyWorktreeChanges

\* if opts.OnlyUntrackedChanges { return nil }
stopAfterUntracked(opts) == opts.OnlyUntrackedChanges

\* Faulty variant: OnlyWorktreeChanges is ignored
selectScope_AlwaysUnion(st, opts) == IndexWithWorktree(st)

\* if opts.OnlyWorktreeChanges { scope = Worktree } else { scope = IndexWithWorktree() }
selectScope(st, opts) ==
    IF opts.OnlyWorktreeChanges THEN st.Worktree ELSE IndexWithWorktree(st)

\* Faulty variant: tracked changes are tested before untracked ones
submoduleViolation_TrackedFirst(submodule) ==
    IF submodule.IsAdded
    THEN Violation("SubmoduleAddedAndNotCommitted", <<>>, submodule.Path)
    ELSE IF submodule.IsDeleted
    THEN Violation("SubmoduleDeleted", <<>>, submodule.Path)
    ELSE IF submodule.IsModified /\ submodule.HasTrackedChanges
    THEN Violation("SubmoduleHasUncommittedChanges", <<>>, submodule.Path)
    ELSE IF submodule.IsModified /\ submodule.HasUntrackedChanges
    THEN Violation("SubmoduleHasUntrackedChanges", <<>>, submodule.Path)
    ELSE IF submodule.IsModified /\ submodule.IsCommitChanged
    THEN Violation("SubmoduleCommitChanged", <<>>, submodule.Path)
    ELSE NoViolation

\* the if / else if chain on one matched submodule; NoViolation: the loop goes on
submoduleViolation(submodule) ==
    IF submodule.IsAdded
    THEN Violation("SubmoduleAddedAndNotCommitted", <<>>, submodule.Path)
    ELSE IF submodule.IsDeleted
    THEN Violation("SubmoduleDeleted", <<>>, submodule.Path)
    ELSE IF submodule.IsModified
    THEN IF submodule.HasUntrackedChanges
         THEN Violation("SubmoduleHasUntrackedChanges", <<>>, submodule.Path)
         ELSE IF submodule.HasTrackedChanges
         THEN Violation("SubmoduleHasUncommittedChanges", <<>>, submodule.Path)
         ELSE IF submodule.IsCommitChanged
         THEN Violation("SubmoduleCommitChanged", <<>>, submodule.Path)
         ELSE NoViolation
    ELSE NoViolation

\* Faulty variant: the loop returns after the first matched submodule,
\* whether its chain found a violation or not
validateSubmodulesFrom_FirstMatchedOnly(m, submodules, i) ==
    LET matched == {j \in i .. Len(submodules) :
                       IsDirOrSubmodulePathMatched(m, submodules[j].Path)}
    IN IF matched = {} THEN NoViolation
       ELSE submoduleViolation(
                submodules[CHOOSE j \in matched : \A k \in matched : j <= k])

RECURSIVE validateSubmodulesFrom(_, _, _)
\* the loop over scope.Submodules() from index i
validateSubmodulesFrom(m, submodules, i) ==
    IF i > Len(submodules) THEN NoViolation
    ELSE IF ~IsDirOrSubmodulePathMatched(m, submodules[i].Path)
    THEN validateSubmodulesFrom(m, submodules, i + 1)
    ELSE LET v == submoduleViolation(submodules[i]) IN
         IF v # NoViolation THEN v
         ELSE validateSubmodulesFrom(m, submodules, i + 1)

\* Faulty variant: the loop does not ask the matcher about the submodule path
validateStatusResultSubmodules_AnyPath(m, scope) ==
    IF Len(scope.Submodules) = 0 THEN NoViolation
    ELSE validateSubmodulesFrom(
             [m EXCEPT !.dirs = {scope.Submodules[i].Path : i \in 1 .. Len(scope.Submodules)}],
             scope.Submodules, 1)

validateStatusResultSubmodules(m, scope) ==
    IF Len(scope.Submodules) = 0 THEN NoViolation
    ELSE validateSubmodulesFrom(m, scope.Submodules, 1)

ValidateStatusResult(st, m, opts) ==
    LET untrackedPathList == matchedPaths(m, st.UntrackedPathList) IN
    IF Len(untrackedPathList) # 0
    THEN Violation("UntrackedFilesFound", untrackedPathList, "")
    ELSE IF stopAfterUntracked(opts) THEN NoViolation
    ELSE
    LET scope == selectScope(st, opts)
        uncommittedPathList == matchedPaths(m, scope.PathList)
    IN
    IF Len(uncommittedPathList) # 0
    THEN Violation("UncommittedFilesFound", uncommittedPathList, "")
    ELSE validateStatusResultSubmodules(m, scope)

----------------------------------------------------------------------------
(* statusPathList: the matched paths of the status, accumulated. *)

\* Faulty variant: result = append(result, path)
addMatchedPath_Append(m, result, path) ==
    IF IsPathMatched(m, path) THEN Append(result, path) ELSE result

\* if pathMatcher.IsPathMatched(path) { result = util.AddNewStringsToStringArray(result, path) }
addMatchedPath(m, result, path) ==
    IF IsPathMatched(m, path)
    THEN AddNewStringsToStringArray(result, <<path>>)
    ELSE result

RECURSIVE handlePathListFunc(_, _, _)
\* for _, path := range pathList { ... }
handlePathListFunc(m, result, pathList) ==
    IF Len(pathList) = 0 THEN result
    ELSE handlePathListFunc(m, addMatchedPath(m, result, pathList[1]), Tail(pathList))

\* if pathMatcher.IsDirOrSubmodulePathMatched(submodule.Path) { result = util.AddNew... }
addMatchedSubmodule(m, result, submodule) ==
    IF IsDirOrSubmodulePathMatched(m, submodule.Path)
    THEN AddNewStringsToStringArray(result, <<submodule.Path>>)
    ELSE result

RECURSIVE handleSubmodules(_, _, _)
\* for _, submodule := range scope.Submodules() { ... }
handleSubmodules(m, result, submodules) ==
    IF Len(submodules) = 0 THEN result
    ELSE handleSubmodules(m, addMatchedSubmodule(m, result, submodules[1]),
                          Tail(submodules))

\* Faulty variant: no early return
listOnlyUntracked_Never(opts) == FALSE

\* if opts.OnlyUntrackedChanges { return result, nil }
listOnlyUntracked(opts) == opts.OnlyUntrackedChanges

\* if opts.OnlyWorktreeChanges { scope = statusResult.Worktree } else { ...IndexWithWorktree() }
selectScopeOfList(st, opts) ==
    IF opts.OnlyWorktreeChanges THEN st.Worktree ELSE IndexWithWorktree(st)

statusPathList(st, m, opts) ==
    LET untracked == handlePathListFunc(m, <<>>, st.UntrackedPathList) IN
    IF listOnlyUntracked(opts) THEN untracked
    ELSE LET scope == selectScopeOfList(st, opts) IN
         handleSubmodules(m, handlePathListFunc(m, untracked, scope.PathList),
                          scope.Submodules)

StatusPathList(st, m, opts) == statusPathList(st, m, opts)

----------------------------------------------------------------------------
(* The commit trees the handle is opened on. *)

Entry(mode, data) == [mode |-> mode, data |-> data]

\* the entries every tree of the family has
BaseTree ==
    (<<"b">> :> Entry("Dir", <<>>)) @@
    (<<"b", "c">> :> Entry("Regular", <<"hello">>)) @@
    (<<"b", "x">> :> Entry("Executable", <<"run">>)) @@
    (<<"b", "o">> :> Entry("Deprecated", <<"old">>)) @@
    (<<"s">> :> Entry("Submodule", <<>>))

\* link texts of the top-level symlink a
TopLinkTexts ==
    { <<"b", "c">>, <<"b">>, <<"b", "l">>, <<"s">>, <<"nope">>,
      <<"..", "outside">>, <<"..">>, <<"b", "..", "..", "y">>,
      <<"/", "etc", "passwd">> }

\* link texts of the symlink b/l, relative to the directory b
SubLinkTexts ==
    { <<"c">>, <<"x">>, <<"o">>, <<"..", "a">>, <<"nope">>,
      <<"..">>, <<"..", "..", "x">>, <<"..", "..">>, <<"/", "b", "c">> }

MkTree(topLink, subLink) ==
    BaseTree @@ (<<"a">> :> Entry("Symlink", topLink))
             @@ (<<"b", "l">> :> Entry("Symlink", subLink))

\* trees with a symlink that is its own target, or whose target passes
\* through the symlink itself
LoopTrees ==
    { MkTree(<<"a">>, <<"c">>), MkTree(<<"b", "c">>, <<"l">>),
      MkTree(<<"b", "l">>, <<"l">>), MkTree(<<"a", "c">>, <<"c">>) }

\* a chain of n symlinks n1 -> n2 -> ... -> n<n> -> n<n+1>, the last a regular file
ChainName(i) == <<"n" \o ToString(i)>>

ChainTree(n) ==
    [p \in {ChainName(i) : i \in 1 .. (n + 1)} |->
        LET i == CHOOSE k \in 1 .. (n + 1) : ChainName(k) = p IN
        IF i > n THEN Entry("Regular", <<"end">>)
        ELSE Entry("Symlink", ChainName(i + 1))]

ChainLengths == {1, 2} \cup ((MaxSymlinkDepth - 1) .. (MaxSymlinkDepth + 2))

Trees ==
    {MkTree(a, l) : a \in TopLinkTexts, l \in SubLinkTexts}
        \cup LoopTrees
        \cup {ChainTree(n) : n \in ChainLengths}

\* the paths the operations are called with
QueryNames == {"a", "b", "c", "l", ".."}

RECURSIVE SeqsUpTo(_, _)
SeqsUpTo(S, n) ==
    IF n = 0 THEN {<<>>}
    ELSE LET shorter == SeqsUpTo(S, n - 1) IN
         shorter \cup {Append(q, x) : q \in shorter, x \in S}

QueryPaths == (SeqsUpTo(QueryNames, MaxPathLen) \ {<<>>}) \cup {ChainName(1)}

----------------------------------------------------------------------------
(* One call of a query operation on a handle. *)

NoRes == Res(<<>>, ErrNil, "none", <<>>)

NoRet == [op |-> "none", path |-> <<>>, check |-> "nil", res |-> NoRes,
          data |-> <<>>, exist |-> FALSE, err |-> ErrNil]

EmptyScope == Scope(<<>>, <<>>)

NoStatus == [UntrackedPathList |-> <<>>, Worktree |-> EmptyScope, Index |-> EmptyScope]

NoMatcher == [paths |-> {}, dirs |-> {}]

NoOpts == [OnlyWorktreeChanges |-> FALSE, OnlyUntrackedChanges |-> FALSE]

NoVRet == [op |-> "none", opts |-> NoOpts, violation |-> NoViolation, list |-> <<>>]

\* the goroutines that call into the handle
Threads == {"t1", "t2"}

\* a Local just opened: both mutexes unlocked, statusResult nil; statusCalls
\* is the outcome of each invocation of status.Status so far
NoHandle ==
    [mutex |-> "unlocked", statusResult |-> "nil", statusCalls |-> <<>>,
     nonThreadSafeRepositoryMutex |-> "unlocked"]

\* a goroutine outside the handle: calls is the number of calls it has made,
\* seen what the last one returned to it
IdleThread == [pc |-> "idle", op |-> "none", stage |-> 1, calls |-> 0, seen |-> "none"]

NoThreads == [t \in Threads |-> IdleThread]

\* no OpenLocalRepo call
NoOpen ==
    [pc |-> "none", WithServiceHeadCommit |-> FALSE, WithStagedChangesOnly |-> FALSE,
     head |-> "none", l |-> "nil", headCommit |-> "none", captured |-> "none",
     synced |-> "none", holds |-> 0, deferred |-> 0, other |-> FALSE,
     log |-> <<>>, err |-> "nil", got |-> {}, ops |-> 0]

\* no call of the walk and glob operations
NoWalk ==
    [pc |-> "none", op |-> "none", queryDir |-> <<>>, dir |-> <<>>, glob |-> <<>>,
     stack |-> <<>>, calls |-> <<>>, result |-> <<>>, err |-> ErrNil,
     guard |-> "unlocked", locks |-> 0, heldInFileFunc |-> FALSE,
     todo |-> <<>>, inGuarded |-> FALSE]

\* SetupOndemandKubeInitializer: a new initializer, on which no call was made
NoKube == [initializer |-> [initialized |-> FALSE], calls |-> <<>>]

\* the werf processes of one host
Procs == {"p1", "p2"}

\* a process that is not inside SetWerfFirstRunAt
IdleProc == [pc |-> "idle", lock |-> FALSE, exists |-> FALSE, err |-> "nil", runs |-> 0]

\* no first-run timestamp file, its host lock free
NoFirstRun ==
    [file |-> 0, lock |-> "free", now |-> 0, procs |-> [p \in Procs |-> IdleProc],
     log |-> <<>>]

\* no call of RunGCForLocalDockerServer
NoGC ==
    [pc |-> "none", dockerServerStoragePath |-> "", force |-> FALSE, dryRun |-> FALSE,
     server |-> <<>>, containers |-> <<>>, reading |-> 0,
     checkResult |-> [Percentage |-> 0, ImagesDescs |-> <<>>], bytesToFree |-> 0,
     i |-> 0, j |-> 0, imageRemovalFailed |-> FALSE, freedBytes |-> 0,
     freedImagesCount |-> 0, acquiredHostLocks |-> <<>>, k |-> 0, held |-> {},
     events |-> <<>>, err |-> "nil"]

\* no call of safeContainersCleanup
NoCleanup == [pc |-> "none", containers |-> <<>>, listErr |-> FALSE,
              err |-> "nil", events |-> <<>>, held |-> {}]

Init ==
    /\ tree \in Trees
    /\ phase = "ready"
    /\ ret = NoRet
    /\ status = NoStatus
    /\ matcher = NoMatcher
    /\ vret = NoVRet
    /\ handle = NoHandle
    /\ threads = NoThreads
    /\ open = NoOpen
    /\ walk = NoWalk
    /\ kube = NoKube
    /\ firstRun = NoFirstRun
    /\ gc = NoGC
    /\ cleanup = NoCleanup

Returned(r) ==
    /\ phase' = "returned"
    /\ ret' = r
    /\ UNCHANGED <<tree, status, matcher, vret, handle, threads, open, walk,
                 kube, firstRun, gc, cleanup>>

CallResolveCommitFilePath ==
    /\ phase = "ready"
    /\ \E path \in QueryPaths :
         LET r == ResolveCommitFilePath(tree, path) IN
         Returned([NoRet EXCEPT !.op = "ResolveCommitFilePath", !.path = path,
                                !.res = r, !.err = r.err])

CallResolveAndCheckCommitFilePath ==
    /\ phase = "ready"
    /\ \E path \in QueryPaths, check \in CheckFuncs \ {"nil"} :
         LET r == ResolveAndCheckCommitFilePath(tree, path, check) IN
         Returned([NoRet EXCEPT !.op = "ResolveAndCheckCommitFilePath",
                                !.path = path, !.check = check,
                                !.res = r, !.err = r.err])

CallReadCommitFile ==
    /\ phase = "ready"
    /\ \E path \in QueryPaths :
         LET r == readCommitFile(tree, path) IN
         Returned([NoRet EXCEPT !.op = "ReadCommitFile", !.path = path,
                                !.data = r.data, !.err = r.err])

CallIsCommitFileExist ==
    /\ phase = "ready"
    /\ \E path \in QueryPaths :
         LET r == isCommitFileExist(tree, path) IN
         Returned([NoRet EXCEPT !.op = "IsCommitFileExist", !.path = path,
                                !.exist = r.exist, !.err = r.err])

CallIsCommitDirectoryExist ==
    /\ phase = "ready"
    /\ \E path \in QueryPaths :
         LET r == isCommitDirectoryExist(tree, path) IN
         Returned([NoRet EXCEPT !.op = "IsCommitDirectoryExist", !.path = path,
                                !.exist = r.exist, !.err = r.err])

Next ==
    \/ CallResolveCommitFilePath
    \/ CallResolveAndCheckCommitFilePath
    \/ CallReadCommitFile
    \/ CallIsCommitFileExist
    \/ CallIsCommitDirectoryExist

Spec == Init /\ [][Next]_vars

----------------------------------------------------------------------------
(* The status snapshots and matchers, and one status call on a handle. *)

Submodule(path, flags) ==
    [Path |-> path,
     IsAdded |-> "Added" \in flags,
     IsDeleted |-> "Deleted" \in flags,
     IsModified |-> "Modified" \in flags,
     HasUntrackedChanges |-> "HasUntrackedChanges" \in flags,
     HasTrackedChanges |-> "HasTrackedChanges" \in flags,
     IsCommitChanged |-> "CommitChanged" \in flags]

SubmoduleFlags ==
    {"Added", "Deleted", "Modified", "HasUntrackedChanges", "HasTrackedChanges",
     "CommitChanged"}

UntrackedPathLists == { <<>>, <<"foo.txt">>, <<"bar", "foo.txt">> }

WorktreePathLists == { <<>>, <<"foo.txt">>, <<"bar", "sub">> }

IndexPathLists == { <<>>, <<"foo.txt", "baz">> }

\* the submodule sub with every combination of flags, alone or before sub2
WorktreeSubmoduleLists ==
    {<<>>}
        \cup {<<Submodule("sub", f)>> : f \in SUBSET SubmoduleFlags}
        \cup {<<Submodule("sub", f), Submodule("sub2", {"Added"})>> :
                 f \in SUBSET SubmoduleFlags}

IndexSubmoduleLists == { <<>>, <<Submodule("sub2", {"Deleted"})>> }

StatusResults ==
    [UntrackedPathList : UntrackedPathLists,
     Worktree : {Scope(p, sm) : p \in WorktreePathLists, sm \in WorktreeSubmoduleLists},
     Index : {Scope(p, sm) : p \in IndexPathLists, sm \in IndexSubmoduleLists}]

StatusPaths == {"foo.txt", "bar", "baz", "sub", "sub2"}

PathMatchers ==
    { [paths |-> {}, dirs |-> {}],
      [paths |-> {"foo.txt"}, dirs |-> {"sub"}],
      [paths |-> {}, dirs |-> {"sub"}],
      [paths |-> {}, dirs |-> StatusPaths],
      [paths |-> StatusPaths, dirs |-> StatusPaths] }

StatusOptions == [OnlyWorktreeChanges : BOOLEAN, OnlyUntrackedChanges : BOOLEAN]

InitStatus ==
    /\ tree = BaseTree
    /\ phase = "ready"
    /\ ret = NoRet
    /\ status \in StatusResults
    /\ matcher \in PathMatchers
    /\ vret = NoVRet
    /\ handle = NoHandle
    /\ threads = NoThreads
    /\ open = NoOpen
    /\ walk = NoWalk
    /\ kube = NoKube
    /\ firstRun = NoFirstRun
    /\ gc = NoGC
    /\ cleanup = NoCleanup

CallValidateStatusResult ==
    /\ phase = "ready"
    /\ \E opts \in StatusOptions :
         vret' = [op |-> "ValidateStatusResult", opts |-> opts,
                  violation |-> ValidateStatusResult(status, matcher, opts),
                  list |-> <<>>]
    /\ phase' = "returned"
    /\ UNCHANGED <<tree, ret, status, matcher, handle, threads, open, walk,
                 kube, firstRun, gc, cleanup>>

CallStatusPathList ==
    /\ phase = "ready"
    /\ \E opts \in StatusOptions :
         vret' = [op |-> "StatusPathList", opts |-> opts,
                  violation |-> NoViolation,
                  list |-> StatusPathList(status, matcher, opts)]
    /\ phase' = "returned"
    /\ UNCHANGED <<tree, ret, status, matcher, handle, threads, open, walk,
                 kube, firstRun, gc, cleanup>>

NextStatus ==
    \/ CallValidateStatusResult
    \/ CallStatusPathList

SpecStatus == InitStatus /\ [][NextStatus]_vars

----------------------------------------------------------------------------
(* Goroutines calling into one handle.  The status operations go through  *)
(* Local.status, under repo.mutex; the operations on the go-git repository *)
(* go through withNonThreadSafeRepository, under                           *)
(* repo.nonThreadSafeRepositoryMutex.  A mutex is "unlocked" or holds the  *)
(* name of the goroutine that locked it.                                   *)

\* calls one goroutine makes
MaxCalls == 2

\* what status.Status can return: the working tree is not the same at every time
Snapshots == {"s1", "s2"}

StatusOps == {"ValidateStatusResult", "StatusPathList", "StatusIndexChecksum"}

RepositoryOps == {"GetOrCreateChecksum", "lsTreeResult", "ReadCommitTreeEntryContent"}

SetThread(t, rec) ==
    threads' = [threads EXCEPT ![t] = rec]

\* the method of thread t returns value to its caller
ThreadReturns(t, value) ==
    SetThread(t, [pc |-> "idle", op |-> threads[t].op, stage |-> 1,
                  calls |-> threads[t].calls + 1, seen |-> value])

\* Faulty variant: the cached result is not looked at
needsStatus_Always(h) == TRUE

\* if repo.statusResult == nil
needsStatus(h) == h.statusResult = "nil"

\* a status operation is called: it calls repo.status(ctx)
CallStatusOperation(t) ==
    /\ threads[t].pc = "idle"
    /\ threads[t].calls < MaxCalls
    /\ \E op \in StatusOps :
         SetThread(t, [threads[t] EXCEPT !.pc = "status", !.op = op])
    /\ UNCHANGED <<tree, phase, ret, status, matcher, vret, handle, open, walk,
                 kube, firstRun, gc, cleanup>>

\* repo.mutex.Lock()
StatusLock(t) ==
    /\ threads[t].pc = "status"
    /\ handle.mutex = "unlocked"
    /\ handle' = [handle EXCEPT !.mutex = t]
    /\ SetThread(t, [threads[t] EXCEPT !.pc = "statusLocked"])
    /\ UNCHANGED <<tree, phase, ret, status, matcher, vret, open, walk,
                 kube, firstRun, gc, cleanup>>

\* result, err := status.Status(ctx, repo.WorkTreeDir)
StatusCompute(t) ==
    /\ threads[t].pc = "statusLocked"
    /\ needsStatus(handle)
    /\ \E outcome \in Snapshots \cup {"error"} :
         /\ handle' = [handle EXCEPT !.statusCalls = Append(@, outcome)]
         /\ SetThread(t, [threads[t] EXCEPT !.pc = "statusComputed", !.seen = outcome])
    /\ UNCHANGED <<tree, phase, ret, status, matcher, vret, open, walk,
                 kube, firstRun, gc, cleanup>>

\* if err != nil { return nil, err }; repo.statusResult = &result; return; Unlock
StatusStore(t) ==
    /\ threads[t].pc = "statusComputed"
    /\ IF threads[t].seen = "error"
       THEN /\ handle' = [handle EXCEPT !.mutex = "unlocked"]
            /\ ThreadReturns(t, "statusError")
       ELSE /\ handle' = [handle EXCEPT !.mutex = "unlocked",
                                        !.statusResult = threads[t].seen]
            /\ ThreadReturns(t, threads[t].seen)
    /\ UNCHANGED <<tree, phase, ret, status, matcher, vret, open, walk,
                 kube, firstRun, gc, cleanup>>

\* repo.statusResult != nil: return repo.statusResult, nil; Unlock
StatusCached(t) ==
    /\ threads[t].pc = "statusLocked"
    /\ ~needsStatus(handle)
    /\ handle' = [handle EXCEPT !.mutex = "unlocked"]
    /\ ThreadReturns(t, handle.statusResult)
    /\ UNCHANGED <<tree, phase, ret, status, matcher, vret, open, walk,
                 kube, firstRun, gc, cleanup>>

\* Faulty variant: Unlock at the end of the function, not deferred
deferredUnlock_OnlyOnSuccess(mu, err) == IF err THEN mu ELSE "unlocked"

\* defer repo.nonThreadSafeRepositoryMutex.Unlock()
deferredUnlock(mu, err) == "unlocked"

\* an operation on the go-git repository is called: it calls
\* withNonThreadSafeRepository (ReadCommitTreeEntryContent: in lsTreeResult)
CallRepositoryOperation(t) ==
    /\ threads[t].pc = "idle"
    /\ threads[t].calls < MaxCalls
    /\ \E op \in RepositoryOps :
         SetThread(t, [threads[t] EXCEPT !.pc = "repository", !.op = op, !.stage = 1])
    /\ UNCHANGED <<tree, phase, ret, status, matcher, vret, handle, open, walk,
                 kube, firstRun, gc, cleanup>>

\* repo.nonThreadSafeRepositoryMutex.Lock()
RepositoryLock(t) ==
    /\ threads[t].pc = "repository"
    /\ handle.nonThreadSafeRepositoryMutex = "unlocked"
    /\ handle' = [handle EXCEPT !.nonThreadSafeRepositoryMutex = t]
    /\ SetThread(t, [threads[t] EXCEPT !.pc = "inRepository"])
    /\ UNCHANGED <<tree, phase, ret, status, matcher, vret, open, walk,
                 kube, firstRun, gc, cleanup>>

\* return f(repo.nonThreadSafeRepository), the deferred Unlock, and what the
\* caller of withNonThreadSafeRepository does with err
RepositoryReturn(t) ==
    /\ threads[t].pc = "inRepository"
    /\ \E err \in BOOLEAN :
         /\ handle' = [handle EXCEPT !.nonThreadSafeRepositoryMutex = deferredUnlock(@, err)]
         /\ IF threads[t].op = "ReadCommitTreeEntryContent" /\ threads[t].stage = 1 /\ ~err
            THEN SetThread(t, [threads[t] EXCEPT !.pc = "repository", !.stage = 2])
            ELSE ThreadReturns(t, IF err THEN "repositoryError" ELSE "ok")
    /\ UNCHANGED <<tree, phase, ret, status, matcher, vret, open, walk,
                 kube, firstRun, gc, cleanup>>

InitThreads ==
    /\ tree = BaseTree
    /\ phase = "ready"
    /\ ret = NoRet
    /\ status = NoStatus
    /\ matcher = NoMatcher
    /\ vret = NoVRet
    /\ handle = NoHandle
    /\ threads = NoThreads
    /\ open = NoOpen
    /\ walk = NoWalk
    /\ kube = NoKube
    /\ firstRun = NoFirstRun
    /\ gc = NoGC
    /\ cleanup = NoCleanup

NextThreads ==
    \E t \in Threads :
        \/ CallStatusOperation(t)
        \/ StatusLock(t)
        \/ StatusCompute(t)
        \/ StatusStore(t)
        \/ StatusCached(t)
        \/ CallRepositoryOperation(t)
        \/ RepositoryLock(t)
        \/ RepositoryReturn(t)

SpecThreads == InitThreads /\ [][NextThreads]_vars

----------------------------------------------------------------------------
(* OpenLocalRepo, statement by statement, and the handle it returns.  The  *)
(* host lock is held by this process (open.holds acquisitions) or by       *)
(* another process (open.other), never both.  open.deferred counts the     *)
(* releases OpenLocalRepo has deferred; open.log records the acquisitions, *)
(* the releases and the start and end of the synchronization.              *)

\* the commits the branch of the work tree can be at
Heads == {"c1", "c2"}

\* the commit SyncSourceWorktreeWithServiceWorktreeBranch makes for a head commit
ServiceCommit(headCommit, onlyStagedChanges) ==
    "service:" \o headCommit \o (IF onlyStagedChanges THEN ":staged" ELSE ":tracked")

\* Faulty variant: the lock is released at the end of the function only
releaseDeferred_OnlyOnSuccess(o, err) ==
    IF err = "nil" THEN o.holds - o.deferred ELSE o.holds

\* defer werf.ReleaseHostLock(lock): the locks held after the function returned
releaseDeferred(o, err) == o.holds - o.deferred

\* return l, err from OpenLocalRepo, with its deferred calls
OpenReturn(o, l, err) ==
    open' = [o EXCEPT !.pc = "returned", !.l = l, !.err = err,
                      !.holds = releaseDeferred(o, err),
                      !.deferred = 0,
                      !.log = IF o.deferred > 0 THEN Append(o.log, "release") ELSE o.log]

OpenUnchanged == UNCHANGED <<tree, phase, ret, status, matcher, vret, handle, threads, walk,
                 kube, firstRun, gc, cleanup>>

\* git.PlainOpenWithOptions(workTreeDir, ...)
OpenPlainOpenWithOptions ==
    /\ open.pc = "PlainOpenWithOptions"
    /\ \E err \in {"nil", "ErrLocalRepositoryNotExists", "open"} :
         IF err = "nil"
         THEN open' = [open EXCEPT !.pc = "ResolveRepoDir"]
         ELSE OpenReturn(open, "nil", err)
    /\ OpenUnchanged

\* true_git.ResolveRepoDir(...)
OpenResolveRepoDir ==
    /\ open.pc = "ResolveRepoDir"
    /\ \E err \in {"nil", "resolveRepoDir"} :
         IF err = "nil"
         THEN open' = [open EXCEPT !.pc = "newLocal"]
         ELSE OpenReturn(open, "nil", err)
    /\ OpenUnchanged

\* newLocal: headCommit, err := getHeadCommit(workTreeDir); l = &Local{...}
OpenNewLocal ==
    /\ open.pc = "newLocal"
    /\ \E err \in {"nil", "getHeadCommit"} :
         IF err = "nil"
         THEN open' = [open EXCEPT !.pc = IF open.WithServiceHeadCommit
                                          THEN "lockGC" ELSE "yield",
                                   !.l = "l", !.headCommit = open.head,
                                   !.captured = open.head]
         ELSE OpenReturn(open, "nil", err)
    /\ OpenUnchanged

\* if lock, err := lockGC(ctx, true); err != nil { return nil, err }
\* else { defer werf.ReleaseHostLock(lock) }; the call waits while another
\* process holds the lock
OpenLockGC ==
    /\ open.pc = "lockGC"
    /\ \E err \in {"nil", "lockGC"} :
         IF err = "nil"
         THEN /\ ~open.other
              /\ open' = [open EXCEPT !.pc = "Sync", !.holds = @ + 1,
                                      !.deferred = @ + 1,
                                      !.log = Append(@, "acquire")]
         ELSE OpenReturn(open, "nil", err)
    /\ OpenUnchanged

\* true_git.SyncSourceWorktreeWithServiceWorktreeBranch(...) is entered
OpenSyncStart ==
    /\ open.pc = "Sync"
    /\ open' = [open EXCEPT !.pc = "Syncing", !.log = Append(@, "syncStart")]
    /\ OpenUnchanged

\* ... and returns: if err != nil { return l, err }; l.headCommit = devHeadCommit
OpenSyncEnd ==
    /\ open.pc = "Syncing"
    /\ \E err \in {"nil", "sync"} :
         LET o == [open EXCEPT !.log = Append(@, "syncEnd")] IN
         IF err = "nil"
         THEN LET devHeadCommit ==
                      ServiceCommit(open.headCommit, open.WithStagedChangesOnly)
              IN open' = [o EXCEPT !.pc = "yield", !.headCommit = devHeadCommit,
                                   !.synced = devHeadCommit]
         ELSE OpenReturn(o, "l", err)
    /\ OpenUnchanged

\* l.yieldRepositoryBackedByWorkTree up to the test of hasSubmodules; without
\* submodules doFunc(repository) returns nil
OpenYield ==
    /\ open.pc = "yield"
    /\ \E outcome \in {"error", "hasSubmodules", "noSubmodules"} :
         IF outcome = "error" THEN OpenReturn(open, "nil", "yield")
         ELSE open' = [open EXCEPT !.pc = IF outcome = "hasSubmodules"
                                          THEN "yieldLockGC" ELSE "PlainOpen"]
    /\ OpenUnchanged

\* yieldRepositoryBackedByWorkTree: lockGC(ctx, true), with the lock of
\* OpenLocalRepo still held when a service head commit was asked for
OpenYieldLockGC ==
    /\ open.pc = "yieldLockGC"
    /\ \E err \in {"nil", "lockGC"} :
         LET o == [open EXCEPT !.log = Append(@, IF open.holds > 0
                                                 THEN "requestHeld" ELSE "request")]
         IN
         IF err = "nil"
         THEN /\ ~open.other
              /\ open' = [o EXCEPT !.pc = "WithWorkTree", !.holds = @ + 1,
                                   !.log = Append(@, "acquire")]
         ELSE OpenReturn(o, "nil", "yield")
    /\ OpenUnchanged

\* true_git.WithWorkTree(...) returns and the lock of
\* yieldRepositoryBackedByWorkTree is released
OpenWithWorkTree ==
    /\ open.pc = "WithWorkTree"
    /\ \E err \in {"nil", "yield"} :
         LET o == [open EXCEPT !.holds = @ - 1, !.log = Append(@, "release")] IN
         IF err = "nil"
         THEN open' = [o EXCEPT !.pc = "PlainOpen"]
         ELSE OpenReturn(o, "nil", err)
    /\ OpenUnchanged

\* repository, err := l.PlainOpen(); l.nonThreadSafeRepository = repository; return l, nil
OpenPlainOpen ==
    /\ open.pc = "PlainOpen"
    /\ \E err \in {"nil", "PlainOpen"} :
         OpenReturn(open, IF err = "nil" THEN "l" ELSE "nil", err)
    /\ OpenUnchanged

\* Faulty variant: the head is read from the work tree again
HeadCommit_TrueHead(o) == o.head

\* return repo.headCommit, nil
HeadCommit(o) == o.headCommit

CallHeadCommit ==
    /\ open.pc = "returned"
    /\ open.l = "l"
    /\ open' = [open EXCEPT !.got = @ \cup {HeadCommit(open)}]
    /\ OpenUnchanged

\* another method of the handle is called: none assigns repo.headCommit
CallOtherOperation ==
    /\ open.pc = "returned"
    /\ open.l = "l"
    /\ open.ops < MaxCalls
    /\ open' = [open EXCEPT !.ops = @ + 1]
    /\ OpenUnchanged

\* a commit is made in the work tree, by anyone
RepositoryHeadMoves ==
    /\ open.pc # "none"
    /\ \E c \in Heads \ {open.head} : open' = [open EXCEPT !.head = c]
    /\ OpenUnchanged

\* another werf process on the host takes the lock, and releases it
OtherProcessLocks ==
    /\ open.pc # "none"
    /\ ~open.other
    /\ open.holds = 0
    /\ open' = [open EXCEPT !.other = TRUE]
    /\ OpenUnchanged

OtherProcessUnlocks ==
    /\ open.other
    /\ open' = [open EXCEPT !.other = FALSE]
    /\ OpenUnchanged

InitOpen ==
    /\ tree = BaseTree
    /\ phase = "ready"
    /\ ret = NoRet
    /\ status = NoStatus
    /\ matcher = NoMatcher
    /\ vret = NoVRet
    /\ handle = NoHandle
    /\ threads = NoThreads
    /\ \E service, staged \in BOOLEAN, head \in Heads :
         open = [NoOpen EXCEPT !.pc = "PlainOpenWithOptions",
                               !.WithServiceHeadCommit = service,
                               !.WithStagedChangesOnly = staged,
                               !.head = head]
    /\ walk = NoWalk
    /\ kube = NoKube
    /\ firstRun = NoFirstRun
    /\ gc = NoGC
    /\ cleanup = NoCleanup

NextOpen ==
    \/ OpenPlainOpenWithOptions
    \/ OpenResolveRepoDir
    \/ OpenNewLocal
    \/ OpenLockGC
    \/ OpenSyncStart
    \/ OpenSyncEnd
    \/ OpenYield
    \/ OpenYieldLockGC
    \/ OpenWithWorkTree
    \/ OpenPlainOpen
    \/ CallHeadCommit
    \/ CallOtherOperation
    \/ RepositoryHeadMoves
    \/ OtherProcessLocks
    \/ OtherProcessUnlocks

SpecOpen == InitOpen /\ [][NextOpen]_vars

----------------------------------------------------------------------------
(* WalkCommitFiles and ListCommitFilesWithGlob, as the machine that        *)
(* executes them: the stack holds one frame per active WalkCommitFiles     *)
(* call (its dir, the resolved dir, the entries of the ls-tree result and  *)
(* the index of the Walk in them).  The record of the call has the paths   *)
(* given to fileFunc, the state of nonThreadSafeRepositoryMutex and the    *)
(* number of times it was locked.                                          *)

IsPrefix(p, q) == Len(p) <= Len(q) /\ SubSeq(q, 1, Len(p)) = p

\* the names of the walked trees, in the order ls-tree lists them
NameOrder == <<"a", "b", "c", "d", "e", "f", "h", "k", "l", "nope">>

WalkNames == {NameOrder[i] : i \in 1 .. Len(NameOrder)}

Rank(name) == CHOOSE i \in 1 .. Len(NameOrder) : NameOrder[i] = name

RECURSIVE PathLess(_, _)
PathLess(p, q) ==
    IF Len(p) = 0 THEN Len(q) > 0
    ELSE IF Len(q) = 0 THEN FALSE
    ELSE IF p[1] = q[1] THEN PathLess(Tail(p), Tail(q))
    ELSE Rank(p[1]) < Rank(q[1])

RECURSIVE SortedPaths(_)
SortedPaths(S) ==
    IF S = {} THEN <<>>
    ELSE LET first == CHOOSE p \in S : \A q \in S \ {p} : PathLess(p, q)
         IN <<first>> \o SortedPaths(S \ {first})

\* ls_tree.Result.Walk of lsTreeResult(PathScope: scope, AllFiles: true): the
\* FullFilepath of every entry below scope that is not a tree, in path order
LsTreeWalk(t, scope) ==
    SortedPaths({p \in DOMAIN t : IsPrefix(scope, p) /\ p # scope /\ t[p].mode # "Dir"})

\* Faulty variant: the path of the entry is passed on as it is
ReplaceFirst_Nothing(s, old, new) == s

\* strings.Replace(s, old, new, 1) on the components of the path: the first
\* occurrence of old is replaced; an empty old is found before the first
\* component
ReplaceFirst(s, old, new) ==
    LET at == {i \in 1 .. (Len(s) - Len(old) + 1) : SubSeq(s, i, i + Len(old) - 1) = old}
    IN IF at = {} THEN s
       ELSE LET i == CHOOSE k \in at : \A j \in at : k <= j
            IN SubSeq(s, 1, i - 1) \o new \o SubSeq(s, i + Len(old), Len(s))

IsPattern(c) == c \in {"*", "**"}

\* util.GlobPrefixWithoutPatterns: the leading components of the glob that
\* have no pattern in them, and the glob that is left
GlobPrefixWithoutPatterns(glob) ==
    LET plain == {n \in 0 .. Len(glob) : \A i \in 1 .. n : ~IsPattern(glob[i])}
        n == CHOOSE k \in plain : \A j \in plain : j <= k
    IN [prefix |-> SubSeq(glob, 1, n), glob |-> SubSeq(glob, n + 1, Len(glob))]

RECURSIVE GlobMatch(_, _)
\* the glob matches the path: "*" is one component, "**" any number of them;
\* a glob that matches a directory matches everything below it
GlobMatch(glob, rel) ==
    IF Len(glob) = 0 THEN TRUE
    ELSE IF glob[1] = "**"
         THEN GlobMatch(Tail(glob), rel) \/ (Len(rel) > 0 /\ GlobMatch(glob, Tail(rel)))
    ELSE IF Len(rel) = 0 THEN FALSE
    ELSE (glob[1] = "*" \/ glob[1] = rel[1]) /\ GlobMatch(Tail(glob), Tail(rel))

RECURSIVE GlobMayMatchBelow(_, _)
\* some path below the directory rel may match the glob
GlobMayMatchBelow(glob, rel) ==
    IF Len(glob) = 0 \/ Len(rel) = 0 THEN TRUE
    ELSE IF glob[1] = "**" THEN TRUE
    ELSE (glob[1] = "*" \/ glob[1] = rel[1]) /\ GlobMayMatchBelow(Tail(glob), Tail(rel))

\* path_matcher.NewPathMatcher(BasePath: basePath, IncludeGlobs: [glob])
NewPathMatcher(basePath, glob) ==
    [paths |-> {p \in Seq(WalkNames) :
                   /\ IsPrefix(basePath, p)
                   /\ GlobMatch(glob, SubSeq(p, Len(basePath) + 1, Len(p)))},
     dirs |-> {d \in Seq(WalkNames) :
                  \/ IsPrefix(d, basePath)
                  \/ /\ IsPrefix(basePath, d)
                     /\ GlobMayMatchBelow(glob, SubSeq(d, Len(basePath) + 1, Len(d)))}]

\* a matcher that accepts every path
AcceptAll == [paths |-> Seq(WalkNames), dirs |-> Seq(WalkNames)]

\* the pathMatcher of the call: the one ListCommitFilesWithGlob builds, or
\* the one the caller of WalkCommitFiles passes
WalkMatcher(w) ==
    IF w.op = "ListCommitFilesWithGlob" THEN NewPathMatcher(w.dir, w.glob) ELSE AcceptAll

\* the walks nested inside one another are stopped at this number
MaxWalkDepth == 4

WalkFrame(dir, resolvedDir, entries, ind, pc) ==
    [dir |-> dir, resolvedDir |-> resolvedDir, entries |-> entries, ind |-> ind, pc |-> pc]

\* a call WalkCommitFiles(dir) that has not run its first statement
EnterFrame(dir) == WalkFrame(dir, <<>>, <<>>, 1, "enter")

Top(w) == w.stack[Len(w.stack)]

SetTop(w, f) == [w EXCEPT !.stack[Len(w.stack)] = f]

\* the innermost WalkCommitFiles returns nil
WalkReturnNil(w) ==
    LET below == SubSeq(w.stack, 1, Len(w.stack) - 1) IN
    [w EXCEPT !.stack = below, !.pc = IF Len(below) = 0 THEN "returned" ELSE @]

\* an error is returned through every active walk
WalkFail(w, err) == [w EXCEPT !.stack = <<>>, !.pc = "returned", !.err = err]

\* repo.nonThreadSafeRepositoryMutex.Lock(); the mutex is not reentrant: a
\* goroutine that locks it while it holds it waits for ever
guardLock(w) ==
    IF w.guard = "locked" THEN [w EXCEPT !.pc = "deadlock"]
    ELSE [w EXCEPT !.guard = "locked", !.locks = @ + 1]

\* Faulty variant: no deferred Unlock
guardUnlock_Missing(w) == w

\* defer repo.nonThreadSafeRepositoryMutex.Unlock()
guardUnlock(w) == [w EXCEPT !.guard = "unlocked"]

\* a call that goes through lsTreeResult and returns before the next
\* statement (getCommitTreeEntry, and with it the probes and the resolution)
withGuardedAccess(w) == guardUnlock(guardLock(w))

\* fileFunc(notResolvedPath): the callback of the caller of WalkCommitFiles,
\* or the one of ListCommitFilesWithGlob that keeps the matched paths
fileFunc(w, notResolvedPath) ==
    [w EXCEPT !.calls = Append(@, notResolvedPath),
              !.heldInFileFunc = @ \/ w.guard = "locked",
              !.result = IF w.op = "ListCommitFilesWithGlob"
                            /\ IsPathMatched(WalkMatcher(w), notResolvedPath)
                         THEN Append(@, notResolvedPath) ELSE @]

\* the trees that are walked
WalkBaseTree ==
    (<<"b">> :> Entry("Dir", <<>>)) @@
    (<<"b", "c">> :> Entry("Regular", <<"hello">>)) @@
    (<<"d">> :> Entry("Dir", <<>>)) @@
    (<<"d", "f">> :> Entry("Regular", <<"data">>)) @@
    (<<"d", "e">> :> Entry("Dir", <<>>)) @@
    (<<"d", "e", "h">> :> Entry("Executable", <<"run">>))

\* link texts of the symlinks a, b/l and d/e/k
WalkTopLinkTexts == { <<"b">>, <<"d">>, <<"b", "l">>, <<"d", "e">> }

WalkSubLinkTexts == { <<"c">>, <<"..", "d">>, <<".">>, <<"nope">>, <<"..", "a">> }

WalkDeepLinkTexts == { <<"h">>, <<"..">>, <<"..", "..", "b">> }

WalkTrees ==
    { WalkBaseTree @@ (<<"a">> :> Entry("Symlink", top))
                   @@ (<<"b", "l">> :> Entry("Symlink", sub))
                   @@ (<<"d", "e", "k">> :> Entry("Symlink", deep)) :
        top \in WalkTopLinkTexts, sub \in WalkSubLinkTexts, deep \in WalkDeepLinkTexts }

\* the dir argument of WalkCommitFiles
WalkDirs == { <<"a">>, <<"b">>, <<"d">>, <<"d", "e">>, <<"b", "l">>, <<"b", "c">>, <<"nope">> }

\* the dir and glob arguments of ListCommitFilesWithGlob
GlobDirs == { <<>>, <<"a">>, <<"b">>, <<"d">> }

Globs == { <<"*">>, <<"**">>, <<"c">>, <<"e", "*">>, <<"l", "*">>, <<"b", "*">> }

\* the commit-tree paths ReadCommitTreeEntryContent is called with
ContentPaths == { <<"b", "c">>, <<"b", "l">> }

InitWalk ==
    /\ tree \in WalkTrees
    /\ phase = "ready"
    /\ ret = NoRet
    /\ status = NoStatus
    /\ matcher = NoMatcher
    /\ vret = NoVRet
    /\ handle = NoHandle
    /\ threads = NoThreads
    /\ open = NoOpen
    /\ walk = NoWalk
    /\ kube = NoKube
    /\ firstRun = NoFirstRun
    /\ gc = NoGC
    /\ cleanup = NoCleanup

WalkUnchanged ==
    UNCHANGED <<tree, phase, ret, status, matcher, vret, handle, threads, open,
                 kube, firstRun, gc, cleanup>>

CallWalkCommitFiles ==
    /\ walk.pc = "none"
    /\ \E dir \in WalkDirs :
         walk' = [NoWalk EXCEPT !.pc = "running", !.op = "WalkCommitFiles",
                                !.dir = dir, !.stack = <<EnterFrame(dir)>>]
    /\ WalkUnchanged

\* ListCommitFilesWithGlob up to its call of WalkCommitFiles
CallListCommitFilesWithGlob ==
    /\ walk.pc = "none"
    /\ \E dir \in GlobDirs, glob \in Globs :
         LET split == GlobPrefixWithoutPatterns(glob)
             dirOrFileWithGlobPrefix == PathJoin(dir, split.prefix)
             w == withGuardedAccess(
                      [NoWalk EXCEPT !.pc = "running", !.op = "ListCommitFilesWithGlob",
                                     !.queryDir = dir, !.dir = dirOrFileWithGlobPrefix,
                                     !.glob = split.glob])
             isRegularFile == isCommitFileExist(tree, dirOrFileWithGlobPrefix)
         IN walk' = IF w.pc = "deadlock" THEN w
                    ELSE IF isRegularFile.err # ErrNil THEN WalkFail(w, isRegularFile.err)
                    ELSE IF isRegularFile.exist
                    THEN [fileFunc(w, dirOrFileWithGlobPrefix) EXCEPT !.pc = "returned"]
                    ELSE [w EXCEPT !.stack = <<EnterFrame(dirOrFileWithGlobPrefix)>>]
    /\ WalkUnchanged

\* WalkCommitFiles from its first statement to the call of lsTreeResult
WalkEnter ==
    /\ walk.pc = "running" /\ Len(walk.stack) > 0 /\ Top(walk).pc = "enter"
    /\ LET f == Top(walk)
           w == withGuardedAccess(walk)
           exist == isCommitDirectoryExist(tree, f.dir)
           resolvedDir == ResolveCommitFilePath(tree, f.dir)
       IN walk' =
            IF ~IsDirOrSubmodulePathMatched(WalkMatcher(walk), f.dir)
            THEN WalkReturnNil(walk)
            ELSE IF w.pc = "deadlock" THEN w
            ELSE IF exist.err # ErrNil THEN WalkFail(w, exist.err)
            ELSE IF ~exist.exist THEN WalkReturnNil(w)
            ELSE IF resolvedDir.err # ErrNil THEN WalkFail(w, Wrapped(f.dir))
            ELSE SetTop(w, [f EXCEPT !.resolvedDir = resolvedDir.path, !.pc = "lsTree"])
    /\ WalkUnchanged

\* lsTreeResult enters withNonThreadSafeRepository
WalkLsTreeLock ==
    /\ walk.pc = "running" /\ Len(walk.stack) > 0 /\ Top(walk).pc = "lsTree"
    /\ LET w == guardLock(walk) IN
       walk' = IF w.pc = "deadlock" THEN w
               ELSE SetTop(w, [Top(w) EXCEPT !.pc = "lsTreeLocked"])
    /\ WalkUnchanged

\* Base.lsTreeResult returns and the deferred Unlock runs
WalkLsTreeUnlock ==
    /\ walk.pc = "running" /\ Len(walk.stack) > 0 /\ Top(walk).pc = "lsTreeLocked"
    /\ LET w == guardUnlock(walk)
           f == Top(walk)
       IN walk' = SetTop(w, [f EXCEPT !.entries = LsTreeWalk(tree, f.resolvedDir),
                                      !.ind = 1, !.pc = "entries"])
    /\ WalkUnchanged

\* the function given to result.Walk, called with the next entry
WalkEntry ==
    /\ walk.pc = "running" /\ Len(walk.stack) > 0
    /\ Top(walk).pc = "entries" /\ Top(walk).ind <= Len(Top(walk).entries)
    /\ LET f == Top(walk)
           FullFilepath == f.entries[f.ind]
           notResolvedPath == ReplaceFirst(FullFilepath, f.resolvedDir, f.dir)
           next == SetTop(walk, [f EXCEPT !.ind = @ + 1])
           w == withGuardedAccess(next)
           isDir == isCommitDirectoryExist(tree, notResolvedPath)
       IN walk' =
            IF IsMalformed(LsTreeEntry(tree, FullFilepath).mode)
            THEN [walk EXCEPT !.pc = "panic"]
            ELSE IF ~IsDirOrSubmodulePathMatched(WalkMatcher(walk), notResolvedPath)
            THEN next
            ELSE IF LsTreeEntry(tree, FullFilepath).mode = "Symlink"
            THEN IF w.pc = "deadlock" THEN w
                 ELSE IF isDir.err # ErrNil THEN WalkFail(w, isDir.err)
                 ELSE IF isDir.exist
                 THEN IF Len(w.stack) < MaxWalkDepth
                      THEN [w EXCEPT !.stack = Append(@, EnterFrame(notResolvedPath))]
                      ELSE [w EXCEPT !.pc = "cut"]
                 ELSE fileFunc(w, notResolvedPath)
            ELSE fileFunc(next, notResolvedPath)
    /\ WalkUnchanged

\* result.Walk has no entry left: the innermost WalkCommitFiles returns
WalkReturn ==
    /\ walk.pc = "running" /\ Len(walk.stack) > 0
    /\ Top(walk).pc = "entries" /\ Top(walk).ind > Len(Top(walk).entries)
    /\ walk' = WalkReturnNil(walk)
    /\ WalkUnchanged

\* ReadCommitTreeEntryContent: lsTreeResult, then LsTreeEntryContent, each
\* inside withNonThreadSafeRepository
CallReadCommitTreeEntryContent ==
    /\ walk.pc = "none"
    /\ \E relPath \in ContentPaths :
         walk' = [NoWalk EXCEPT !.pc = "running", !.op = "ReadCommitTreeEntryContent",
                                !.dir = relPath,
                                !.todo = <<"lsTreeResult", "LsTreeEntryContent">>]
    /\ WalkUnchanged

\* GetOrCreateChecksum: getOrCreateChecksum inside withNonThreadSafeRepository
CallGetOrCreateChecksum ==
    /\ walk.pc = "none"
    /\ walk' = [NoWalk EXCEPT !.pc = "running", !.op = "GetOrCreateChecksum",
                              !.todo = <<"getOrCreateChecksum">>]
    /\ WalkUnchanged

\* withNonThreadSafeRepository locks the mutex and calls f
GuardedEnter ==
    /\ walk.pc = "running" /\ Len(walk.todo) > 0 /\ ~walk.inGuarded
    /\ LET w == guardLock(walk) IN
       walk' = IF w.pc = "deadlock" THEN w ELSE [w EXCEPT !.inGuarded = TRUE]
    /\ WalkUnchanged

\* f returns, the deferred Unlock runs; after the last one the operation returns
GuardedLeave ==
    /\ walk.pc = "running" /\ Len(walk.todo) > 0 /\ walk.inGuarded
    /\ LET w == guardUnlock(walk) IN
       walk' = [w EXCEPT !.inGuarded = FALSE, !.todo = Tail(@),
                         !.result = IF Head(walk.todo) = "LsTreeEntryContent"
                                    THEN LsTreeEntryContent(tree, walk.dir) ELSE @,
                         !.pc = IF Len(walk.todo) = 1 THEN "returned" ELSE @]
    /\ WalkUnchanged

NextWalk ==
    \/ CallWalkCommitFiles
    \/ CallListCommitFilesWithGlob
    \/ WalkEnter
    \/ WalkLsTreeLock
    \/ WalkLsTreeUnlock
    \/ WalkEntry
    \/ WalkReturn
    \/ CallReadCommitTreeEntryContent
    \/ CallGetOrCreateChecksum
    \/ GuardedEnter
    \/ GuardedLeave

SpecWalk == InitWalk /\ [][NextWalk]_vars

----------------------------------------------------------------------------
(* The on-demand Kubernetes initializer: one initializer, and the calls of *)
(* Init made on it one after another.  kube.Init and InitKubedog are the   *)
(* environment: each either succeeds or fails when it is invoked.          *)

\* calls of Init made on the initializer
MaxInitCalls == 5

StepResults == {"ok", "fail"}

KubeCall(initializer, err, invoked) ==
    [initializer |-> initializer, err |-> err, invoked |-> invoked]

\* Faulty variant: the flag is set before the two steps are made
OndemandKubeInitializerInit_FlagFirst(initializer, kubeInit, initKubedog) ==
    IF initializer.initialized
    THEN KubeCall(initializer, "nil", <<>>)
    ELSE IF kubeInit = "fail"
    THEN KubeCall([initializer EXCEPT !.initialized = TRUE],
                  "cannot initialize kube", <<"kube.Init">>)
    ELSE IF initKubedog = "fail"
    THEN KubeCall([initializer EXCEPT !.initialized = TRUE],
                  "cannot init kubedog", <<"kube.Init", "InitKubedog">>)
    ELSE KubeCall([initializer EXCEPT !.initialized = TRUE],
                  "nil", <<"kube.Init", "InitKubedog">>)

\* initializer.Init(ctx); kubeInit and initKubedog are what the two steps
\* do when this call invokes them
OndemandKubeInitializerInit(initializer, kubeInit, initKubedog) ==
    IF initializer.initialized
    THEN KubeCall(initializer, "nil", <<>>)
    ELSE IF kubeInit = "fail"
    THEN KubeCall(initializer, "cannot initialize kube", <<"kube.Init">>)
    ELSE IF initKubedog = "fail"
    THEN KubeCall(initializer, "cannot init kubedog", <<"kube.Init", "InitKubedog">>)
    ELSE KubeCall([initializer EXCEPT !.initialized = TRUE],
                  "nil", <<"kube.Init", "InitKubedog">>)

InitKube ==
    /\ tree = BaseTree
    /\ phase = "ready"
    /\ ret = NoRet
    /\ status = NoStatus
    /\ matcher = NoMatcher
    /\ vret = NoVRet
    /\ handle = NoHandle
    /\ threads = NoThreads
    /\ open = NoOpen
    /\ walk = NoWalk
    /\ kube = NoKube
    /\ firstRun = NoFirstRun
    /\ gc = NoGC
    /\ cleanup = NoCleanup

CallOndemandKubeInitializerInit ==
    /\ Len(kube.calls) < MaxInitCalls
    /\ \E kubeInit, initKubedog \in StepResults :
         LET r == OndemandKubeInitializerInit(kube.initializer, kubeInit, initKubedog)
         IN  kube' = [initializer |-> r.initializer,
                      calls |-> Append(kube.calls,
                                       [before |-> kube.initializer.initialized,
                                        after |-> r.initializer.initialized,
                                        kubeInit |-> kubeInit,
                                        err |-> r.err,
                                        invoked |-> r.invoked])]
    /\ UNCHANGED <<tree, phase, ret, status, matcher, vret, handle, threads, open, walk,
                   firstRun, gc, cleanup>>

NextKube == CallOndemandKubeInitializerInit

SpecKube == InitKube /\ [][NextKube]_vars

----------------------------------------------------------------------------

(* SetWerfFirstRunAt, statement by statement, in the werf processes of one  *)
(* host.  The file holds 0 while it does not exist and the time written    *)
(* into it afterwards; the host lock of its path is held by one process at *)
(* a time.                                                                 *)

\* runs of one werf process
MaxRuns == 2

\* Faulty variant: the timestamp is written whether or not the file exists
AfterCheckTimestampFileExists_AlwaysWrite(exists) == "WriteTimestampFile"

\* "else if !exists { return timestamps.WriteTimestampFile(path, time.Now()) }"
AfterCheckTimestampFileExists(exists) ==
    IF exists THEN "return" ELSE "WriteTimestampFile"

\* lockgate: a lock of one name is given to one holder at a time
HostLockFree(lock) == lock = "free"

InitFirstRun ==
    /\ tree = BaseTree
    /\ phase = "ready"
    /\ ret = NoRet
    /\ status = NoStatus
    /\ matcher = NoMatcher
    /\ vret = NoVRet
    /\ handle = NoHandle
    /\ threads = NoThreads
    /\ open = NoOpen
    /\ walk = NoWalk
    /\ kube = NoKube
    /\ firstRun = NoFirstRun
    /\ gc = NoGC
    /\ cleanup = NoCleanup

FirstRunUnchanged ==
    UNCHANGED <<tree, phase, ret, status, matcher, vret, handle, threads, open, walk,
                kube, gc,
                cleanup>>

\* one step of process p: its fields become q, the rest of the record as given
FirstRunStep(p, q, file, lock, log) ==
    firstRun' = [firstRun EXCEPT !.procs[p] = q, !.file = file, !.lock = lock,
                                 !.log = log]

\* a werf process starts and calls SetWerfFirstRunAt; time has passed
CallSetWerfFirstRunAt(p) ==
    LET me == firstRun.procs[p]
    IN  /\ me.pc = "idle"
        /\ me.runs < MaxRuns
        /\ firstRun' = [firstRun EXCEPT
                          !.now = @ + 1,
                          !.procs[p] = [IdleProc EXCEPT !.pc = "AcquireHostLock",
                                                        !.runs = me.runs + 1]]
        /\ FirstRunUnchanged

\* AcquireHostLock(ctx, path, ...): waits until the lock is free
FirstRunAcquireHostLock(p) ==
    LET me == firstRun.procs[p]
    IN  /\ me.pc = "AcquireHostLock"
        /\ HostLockFree(firstRun.lock)
        /\ FirstRunStep(p, [me EXCEPT !.pc = "CheckTimestampFileExists", !.lock = TRUE],
                        firstRun.file, p, Append(firstRun.log, [by |-> p, op |-> "acquire",
                                                  holder |-> firstRun.lock, file |-> firstRun.file]))
        /\ FirstRunUnchanged

\* AcquireHostLock returns an error: nothing is deferred
FirstRunAcquireHostLockFails(p) ==
    LET me == firstRun.procs[p]
    IN  /\ me.pc = "AcquireHostLock"
        /\ FirstRunStep(p, [me EXCEPT !.pc = "return", !.err = "error locking path"],
                        firstRun.file, firstRun.lock, firstRun.log)
        /\ FirstRunUnchanged

\* timestamps.CheckTimestampFileExists(path)
FirstRunCheckTimestampFileExists(p) ==
    LET me == firstRun.procs[p]
        exists == firstRun.file # 0
        log == Append(firstRun.log, [by |-> p, op |-> "check", holder |-> firstRun.lock,
                                     file |-> firstRun.file])
    IN  /\ me.pc = "CheckTimestampFileExists"
        /\ \/ FirstRunStep(p, [me EXCEPT !.pc = AfterCheckTimestampFileExists(exists),
                                         !.exists = exists],
                           firstRun.file, firstRun.lock, log)
           \/ FirstRunStep(p, [me EXCEPT !.pc = "return",
                                         !.err = "error checking existance"],
                           firstRun.file, firstRun.lock, log)
        /\ FirstRunUnchanged

\* timestamps.WriteTimestampFile(path, time.Now()), which can fail
FirstRunWriteTimestampFile(p) ==
    LET me == firstRun.procs[p]
        log == Append(firstRun.log, [by |-> p, op |-> "write", holder |-> firstRun.lock,
                                     file |-> firstRun.file])
    IN  /\ me.pc = "WriteTimestampFile"
        /\ \/ FirstRunStep(p, [me EXCEPT !.pc = "return"], firstRun.now, firstRun.lock, log)
           \/ FirstRunStep(p, [me EXCEPT !.pc = "return", !.err = "write failed"],
                           firstRun.file, firstRun.lock, firstRun.log)
        /\ FirstRunUnchanged

\* the return of SetWerfFirstRunAt: the deferred ReleaseHostLock(lock)
FirstRunReturn(p) ==
    LET me == firstRun.procs[p]
    IN  /\ me.pc = "return"
        /\ FirstRunStep(p, [me EXCEPT !.pc = "idle", !.lock = FALSE],
                        firstRun.file,
                        IF me.lock THEN "free" ELSE firstRun.lock,
                        IF me.lock
                        THEN Append(firstRun.log, [by |-> p, op |-> "release",
                                       holder |-> firstRun.lock, file |-> firstRun.file])
                        ELSE firstRun.log)
        /\ FirstRunUnchanged

NextFirstRun ==
    \E p \in Procs :
        \/ CallSetWerfFirstRunAt(p)
        \/ FirstRunAcquireHostLock(p)
        \/ FirstRunAcquireHostLockFails(p)
        \/ FirstRunCheckTimestampFileExists(p)
        \/ FirstRunWriteTimestampFile(p)
        \/ FirstRunReturn(p)

SpecFirstRun == InitFirstRun /\ [][NextFirstRun]_vars

----------------------------------------------------------------------------

(* safeContainersCleanup.  A container name is the pair of its leading     *)
(* slash and the rest; the rest is the stage container prefix followed by  *)
(* an identifier, or some other name.  What the host lock and the docker   *)
(* server do for a container is part of the input: the lock is given,      *)
(* held by another process, or fails; the removal succeeds or fails.       *)

\* containers on the docker server
MaxContainers == 3

ContainerIDs == <<"k1", "k2", "k3", "k4">>

StageName(id) == [slash |-> TRUE, prefix |-> "StageContainerNamePrefix", rest |-> id]

OtherName(id) == [slash |-> TRUE, prefix |-> "other", rest |-> id]

\* strings.HasPrefix(name, fmt.Sprintf("/%s", image.StageContainerNamePrefix))
HasStagePrefix(name) == name.slash /\ name.prefix = "StageContainerNamePrefix"

\* strings.TrimPrefix(name, "/")
TrimSlash(name) == [name EXCEPT !.slash = FALSE]

NoName == [slash |-> FALSE, prefix |-> "", rest |-> ""]

\* the loop over container.Names: the first name with the prefix, trimmed
RECURSIVE containerNameFrom(_, _)
containerNameFrom(names, i) ==
    IF i > Len(names) THEN NoName
    ELSE IF HasStagePrefix(names[i]) THEN TrimSlash(names[i])
    ELSE containerNameFrom(names, i + 1)

\* container_runtime.ContainerLockName(containerName)
ContainerLockName(containerName) == <<"container", containerName.rest>>

CleanupResult(err, events, held) == [err |-> err, events |-> events, held |-> held]

\* Faulty variant: the lock of a container is kept after its closure returns
AfterClosure_KeepsLock(held, lockName) == held

\* "defer werf.ReleaseHostLock(lock)": the locks held after the closure
AfterClosure(held, lockName) == held \ {lockName}

\* the loop of safeContainersCleanup from container i on
RECURSIVE safeContainersCleanupFrom(_, _, _, _)
safeContainersCleanupFrom(containers, i, events, held) ==
    IF i > Len(containers) THEN CleanupResult("nil", events, held)
    ELSE LET container == containers[i]
             containerName == containerNameFrom(container.Names, 1)
             lockName == ContainerLockName(containerName)
             acquire == [op |-> "AcquireHostLock", id |-> container.ID,
                         lock |-> lockName, held |-> held]
         IN  IF containerName = NoName
             THEN safeContainersCleanupFrom(containers, i + 1, events, held)
             ELSE IF container.lock = "err"
             THEN CleanupResult("failed to lock", Append(events, acquire), held)
             ELSE IF container.lock = "held"
             THEN safeContainersCleanupFrom(containers, i + 1,
                      events \o <<acquire, [op |-> "ignore", id |-> container.ID,
                                            lock |-> lockName, held |-> held]>>,
                      held)
             ELSE LET mine == held \cup {lockName}
                      remove == [op |-> "containersRemove", id |-> container.ID,
                                 lock |-> lockName, held |-> mine]
                      release == [op |-> "ReleaseHostLock", id |-> container.ID,
                                  lock |-> lockName, held |-> mine]
                      after == AfterClosure(mine, lockName)
                  IN  IF container.rm = "fail"
                      THEN CleanupResult("failed to remove container",
                                         events \o <<acquire, remove, release>>, after)
                      ELSE safeContainersCleanupFrom(containers, i + 1,
                               events \o <<acquire, remove, release>>, after)

\* safeContainersCleanup(ctx, options)
safeContainersCleanup(containers, listErr) ==
    IF listErr THEN CleanupResult("cannot get stages build containers", <<>>, {})
    ELSE safeContainersCleanupFrom(containers, 1, <<>>, {})

\* what the docker server lists: containers with a stage name, with a stage
\* name after another name, or with no stage name
ContainerCases(id) ==
    {[ID |-> id, Names |-> <<OtherName(id)>>, lock |-> "ok", rm |-> "ok"]}
    \cup {[ID |-> id, Names |-> names, lock |-> lock, rm |-> rm] :
            names \in {<<StageName(id)>>, <<OtherName(id), StageName(id)>>},
            lock \in {"ok", "held", "err"}, rm \in {"ok", "fail"}}

ContainerLists ==
    UNION {{cs \in [1 .. n -> UNION {ContainerCases(ContainerIDs[k]) : k \in 1 .. n}] :
              \A k \in 1 .. n : cs[k].ID = ContainerIDs[k]} : n \in 0 .. MaxContainers}

InitCleanup ==
    /\ tree = BaseTree
    /\ phase = "ready"
    /\ ret = NoRet
    /\ status = NoStatus
    /\ matcher = NoMatcher
    /\ vret = NoVRet
    /\ handle = NoHandle
    /\ threads = NoThreads
    /\ open = NoOpen
    /\ walk = NoWalk
    /\ kube = NoKube
    /\ firstRun = NoFirstRun
    /\ gc = NoGC
    /\ \E containers \in ContainerLists, listErr \in BOOLEAN :
         cleanup = [NoCleanup EXCEPT !.pc = "ready", !.containers = containers,
                                     !.listErr = listErr]

CallSafeContainersCleanup ==
    /\ cleanup.pc = "ready"
    /\ LET r == safeContainersCleanup(cleanup.containers, cleanup.listErr)
       IN  cleanup' = [cleanup EXCEPT !.pc = "returned", !.err = r.err,
                                      !.events = r.events, !.held = r.held]
    /\ UNCHANGED <<tree, phase, ret, status, matcher, vret, handle, threads, open, walk,
                   kube, firstRun, gc>>

NextCleanup == CallSafeContainersCleanup

SpecCleanup == InitCleanup /\ [][NextCleanup]_vars

----------------------------------------------------------------------------

(* RunGCForLocalDockerServer, statement by statement.  The docker server   *)
(* is the list of its werf images; an image is removed from it when its    *)
(* last tag is removed or when it is removed by its ID.  What the host     *)
(* lock and the docker server do for a reference is part of the input: its *)
(* fate is "ok", "held" (another process holds the lock), "lockErr"        *)
(* (AcquireHostLock fails), "rmiFail" (docker rmi fails) or "releaseErr"   *)
(* (ReleaseHostLock fails).  Times are positive integers, 0 the zero time. *)

MinImagesToDelete == 10

\* the volume of the docker server storage, and the percentages given
TotalBytes == 100

allowedVolumeUsagePercentage == 80

allowedVolumeUsageMarginPercentage == 10

\* what volumeutils.GetVolumeUsageByPath can read
Percentages == {60, 75, 85}

NoneRef == "<none>:<none>"

Fates == {"ok", "held", "lockErr", "rmiFail", "releaseErr"}

Tag(ref, access, fate) == [ref |-> ref, access |-> access, fate |-> fate]

ImageSummary(id, tags, size, created, dangling) ==
    [ID |-> id, RepoTags |-> tags, Size |-> size, Created |-> created,
     dangling |-> dangling]

\* the loop over imageSummary.RepoTags of GetLocalDockerServerStorageCheck
RECURSIVE lastUsedAtFrom(_, _, _)
lastUsedAtFrom(tags, n, lastUsedAt) ==
    IF n > Len(tags) THEN lastUsedAt
    ELSE IF tags[n].ref = NoneRef \/ tags[n].access = 0
    THEN lastUsedAtFrom(tags, n + 1, lastUsedAt)
    ELSE lastUsedAtFrom(tags, n + 1, tags[n].access)

LocalImageDesc(imageSummary) ==
    [ImageSummary |-> imageSummary,
     LastUsedAt |-> lastUsedAtFrom(imageSummary.RepoTags, 1, imageSummary.Created)]

\* ImagesLruSort.Less
LruLess(a, b) == a.LastUsedAt < b.LastUsedAt

RECURSIVE LruInsert(_, _)
LruInsert(desc, sorted) ==
    IF sorted = <<>> THEN <<desc>>
    ELSE IF LruLess(desc, Head(sorted)) THEN <<desc>> \o sorted
    ELSE <<Head(sorted)>> \o LruInsert(desc, Tail(sorted))

\* sort.Sort(ImagesLruSort(res.ImagesDescs))
RECURSIVE ImagesLruSort(_)
ImagesLruSort(descs) ==
    IF descs = <<>> THEN <<>>
    ELSE LruInsert(descs[Len(descs)], ImagesLruSort(SubSeq(descs, 1, Len(descs) - 1)))

GetLocalDockerServerStorageCheck(server, percentage) ==
    [Percentage |-> percentage,
     ImagesDescs |-> ImagesLruSort([n \in 1 .. Len(server) |-> LocalImageDesc(server[n])])]

GetBytesToFree(checkResult, targetVolumeUsage) ==
    (TotalBytes * (checkResult.Percentage - targetVolumeUsage)) \div 100

\* container_runtime.ImageLockName(ref)
ImageLockName(ref) == <<"image", ref>>

RECURSIVE WithoutRef(_, _)
WithoutRef(tags, ref) ==
    IF tags = <<>> THEN <<>>
    ELSE IF Head(tags).ref = ref THEN WithoutRef(Tail(tags), ref)
    ELSE <<Head(tags)>> \o WithoutRef(Tail(tags), ref)

\* docker rmi <ref>: the tag is removed, and the image with its last tag
RECURSIVE RmiRef(_, _, _)
RmiRef(server, id, ref) ==
    IF server = <<>> THEN <<>>
    ELSE IF Head(server).ID = id
    THEN LET tags == WithoutRef(Head(server).RepoTags, ref)
         IN  IF tags = <<>> THEN Tail(server)
             ELSE <<[Head(server) EXCEPT !.RepoTags = tags]>> \o Tail(server)
    ELSE <<Head(server)>> \o RmiRef(Tail(server), id, ref)

\* docker rmi <ID>
RECURSIVE RmiID(_, _)
RmiID(server, id) ==
    IF server = <<>> THEN <<>>
    ELSE IF Head(server).ID = id THEN Tail(server)
    ELSE <<Head(server)>> \o RmiID(Tail(server), id)

GCEvent(g, op, ref, held) ==
    [op |-> op, i |-> g.i, ref |-> ref, held |-> held,
     LastUsedAt |-> g.checkResult.ImagesDescs[g.i].LastUsedAt]

GCReturn(g, err) == [g EXCEPT !.pc = "returned", !.err = err]

\* "for { var freedBytes ...; if len(checkResult.ImagesDescs) > 0 {"
gcStartPass(g) ==
    [g EXCEPT !.pc = IF Len(g.checkResult.ImagesDescs) > 0 THEN "DeleteImages"
                     ELSE "ReleaseHostLock",
              !.i = 1, !.j = 1, !.k = 1, !.imageRemovalFailed = FALSE,
              !.freedBytes = 0, !.freedImagesCount = 0, !.acquiredHostLocks = <<>>,
              !.events = <<>>]

\* the next desc of the DeleteImages loop, or the end of the loop
gcNextImage(g) ==
    IF g.i + 1 > Len(g.checkResult.ImagesDescs)
    THEN [g EXCEPT !.pc = "ReleaseHostLock", !.i = g.i + 1, !.j = 1, !.k = 1]
    ELSE [g EXCEPT !.i = g.i + 1, !.j = 1, !.imageRemovalFailed = FALSE]

\* Faulty variant: the image locked by another process is removed all the same
gcNotLocked_Removes(g, ref) ==
    LET desc == g.checkResult.ImagesDescs[g.i]
    IN  [g EXCEPT !.events = Append(@, GCEvent(g, "CliRmi", ref, g.held)),
                  !.server = RmiRef(g.server, desc.ImageSummary.ID, ref),
                  !.j = g.j + 1]

\* "if !isLocked { ...; continue DeleteImages }"
gcNotLocked(g, ref) ==
    gcNextImage([g EXCEPT !.events = Append(@, GCEvent(g, "skip", ref, g.held))])

\* from "if force" to the end of the iteration over one ref
gcRemove(g, tag, byID) ==
    LET desc == g.checkResult.ImagesDescs[g.i]
    IN  IF g.dryRun
        THEN [g EXCEPT !.events = Append(@, GCEvent(g, "dryRun", tag.ref, g.held)),
                       !.j = g.j + 1]
        ELSE IF tag.fate = "rmiFail"
        THEN [g EXCEPT !.events = Append(@, GCEvent(g, "CliRmiFailed", tag.ref, g.held)),
                       !.imageRemovalFailed = TRUE,
                       !.j = g.j + 1]
        ELSE [g EXCEPT !.events = Append(@, GCEvent(g, "CliRmi", tag.ref, g.held)),
                       !.server = IF byID THEN RmiID(g.server, desc.ImageSummary.ID)
                                  ELSE RmiRef(g.server, desc.ImageSummary.ID, tag.ref),
                       !.j = g.j + 1]

\* one iteration of "for _, ref := range desc.ImageSummary.RepoTags"
gcRef(g) ==
    LET desc == g.checkResult.ImagesDescs[g.i]
        tag == desc.ImageSummary.RepoTags[g.j]
        lockName == ImageLockName(tag.ref)
    IN  IF tag.ref = NoneRef THEN gcRemove(g, tag, TRUE)
        ELSE IF tag.fate = "lockErr" THEN GCReturn(g, "error locking image")
        ELSE IF tag.fate = "held" THEN gcNotLocked(g, tag.ref)
        ELSE gcRemove([g EXCEPT !.acquiredHostLocks =
                                     Append(@, [LockName |-> lockName, fate |-> tag.fate]),
                                !.held = @ \cup {lockName}],
                      tag, FALSE)

\* Faulty variant: the pass stops as soon as the bytes are freed
gcPassStops_BytesOnly(freedImagesCount, freedBytes, bytesToFree) ==
    freedBytes > bytesToFree

\* "if freedImagesCount < MinImagesToDelete { continue }
\*  if freedBytes > bytesToFree { break }"
gcPassStops(freedImagesCount, freedBytes, bytesToFree) ==
    ~(freedImagesCount < MinImagesToDelete) /\ freedBytes > bytesToFree

\* "if !imageRemovalFailed"
gcCounted(g) == ~g.imageRemovalFailed

\* the statements of the DeleteImages loop after the loop over the refs
gcImageDone(g) ==
    LET desc == g.checkResult.ImagesDescs[g.i]
        g1 == IF gcCounted(g)
              THEN [g EXCEPT !.freedBytes = @ + desc.ImageSummary.Size,
                             !.freedImagesCount = @ + 1,
                             !.events = Append(@, GCEvent(g, "freed", "", g.held))]
              ELSE g
    IN  IF gcPassStops(g1.freedImagesCount, g1.freedBytes, g1.bytesToFree)
        THEN [g1 EXCEPT !.pc = "ReleaseHostLock", !.k = 1]
        ELSE gcNextImage(g1)

----------------------------------------------------------------------------

(* The docker servers and the calls of RunGCForLocalDockerServer on them.  *)

\* a server with an image of two tags, an image that has no tag (it is
\* known by its digest only) and an image listed as <none>:<none>
SmallServer(f1, f2, f3, dangling) ==
    <<ImageSummary("i1", <<Tag("a:1", 0, f1), Tag("a:2", 5, f2)>>, 3, 9, "no"),
      ImageSummary("i2", <<>>, 2, 2, dangling),
      ImageSummary("i3", <<Tag(NoneRef, 0, f3)>>, 1, 7, "no")>>

\* images of the large server
BigServerImages == 12

BigRefs ==
    <<"b1:t", "b2:t", "b3:t", "b4:t", "b5:t", "b6:t", "b7:t", "b8:t", "b9:t",
      "b10:t", "b11:t", "b12:t", "b13:t">>

\* a server with one-tag images, listed from the most recently created to
\* the oldest; the third oldest has the fate f
BigServer(size, f) ==
    [n \in 1 .. BigServerImages |->
        LET age == BigServerImages + 1 - n
        IN  ImageSummary(BigRefs[age], <<Tag(BigRefs[age], 0, IF age = 3 THEN f ELSE "ok")>>,
                         size, age, "no")]

Servers ==
    {<<>>}
    \cup {SmallServer(f1, f2, f3, d) : f1 \in Fates, f2 \in {"ok", "held", "rmiFail"},
                                       f3 \in {"ok", "rmiFail"}, d \in {"kept", "removed"}}
    \cup {BigServer(size, f) : size \in {1, 2}, f \in Fates}

\* the containers on the servers
GCContainerLists ==
    {<<[ID |-> "k1", Names |-> <<StageName("k1")>>, lock |-> "ok", rm |-> rm]>> :
        rm \in {"ok", "fail"}}

InitGC ==
    /\ tree = BaseTree
    /\ phase = "ready"
    /\ ret = NoRet
    /\ status = NoStatus
    /\ matcher = NoMatcher
    /\ vret = NoVRet
    /\ handle = NoHandle
    /\ threads = NoThreads
    /\ open = NoOpen
    /\ walk = NoWalk
    /\ kube = NoKube
    /\ firstRun = NoFirstRun
    /\ cleanup = NoCleanup
    /\ gc = NoGC

GCUnchanged ==
    UNCHANGED <<tree, phase, ret, status, matcher, vret, handle, threads, open, walk,
                kube, firstRun, cleanup>>

\* RunGCForLocalDockerServer up to the first "for {"
CallRunGCForLocalDockerServer ==
    /\ gc.pc = "none"
    /\ \E path \in {"", "/var/lib/docker"}, force, dryRun, checkErr \in BOOLEAN,
          server \in Servers, containers \in GCContainerLists, reading \in Percentages :
         LET targetVolumeUsage ==
                 allowedVolumeUsagePercentage - allowedVolumeUsageMarginPercentage
             checkResult == GetLocalDockerServerStorageCheck(server, reading)
             g == [NoGC EXCEPT !.dockerServerStoragePath = path,
                               !.force = force, !.dryRun = dryRun, !.server = server,
                               !.containers = containers, !.reading = reading]
         IN  gc' = IF path = "" THEN GCReturn(g, "nil")
                   ELSE IF checkErr
                   THEN GCReturn(g, "error getting local docker server storage check")
                   ELSE IF checkResult.Percentage <= allowedVolumeUsagePercentage
                   THEN GCReturn([g EXCEPT !.checkResult = checkResult], "nil")
                   ELSE gcStartPass([g EXCEPT
                            !.checkResult = checkResult,
                            !.bytesToFree = GetBytesToFree(checkResult, targetVolumeUsage)])
    /\ GCUnchanged

GCRef ==
    /\ gc.pc = "DeleteImages"
    /\ gc.j <= Len(gc.checkResult.ImagesDescs[gc.i].ImageSummary.RepoTags)
    /\ gc' = gcRef(gc)
    /\ GCUnchanged

GCImageDone ==
    /\ gc.pc = "DeleteImages"
    /\ gc.j > Len(gc.checkResult.ImagesDescs[gc.i].ImageSummary.RepoTags)
    /\ gc' = gcImageDone(gc)
    /\ GCUnchanged

\* one iteration of "for _, lock := range acquiredHostLocks", or its end
GCReleaseHostLock ==
    /\ gc.pc = "ReleaseHostLock"
    /\ gc' = IF gc.k > Len(gc.acquiredHostLocks)
             THEN [gc EXCEPT !.pc = "safeContainersCleanup"]
             ELSE IF gc.acquiredHostLocks[gc.k].fate = "releaseErr"
             THEN GCReturn(gc, "unable to release lock")
             ELSE [gc EXCEPT !.held = @ \ {gc.acquiredHostLocks[gc.k].LockName},
                             !.k = gc.k + 1]
    /\ GCUnchanged

\* the containers safeContainersCleanup has removed
RemovedContainers(events) ==
    {events[n].id : n \in {m \in 1 .. Len(events) : events[m].op = "containersRemove"}}

RECURSIVE Remaining(_, _)
Remaining(containers, removed) ==
    IF containers = <<>> THEN <<>>
    ELSE IF Head(containers).ID \in removed /\ Head(containers).rm = "ok"
    THEN Remaining(Tail(containers), removed)
    ELSE <<Head(containers)>> \o Remaining(Tail(containers), removed)

GCSafeContainersCleanup ==
    /\ gc.pc = "safeContainersCleanup"
    /\ \E listErr \in BOOLEAN :
         LET r == safeContainersCleanup(gc.containers, listErr)
         IN  gc' = IF r.err # "nil" THEN GCReturn(gc, r.err)
                   ELSE [gc EXCEPT !.pc = "safeDanglingImagesCleanup",
                                   !.containers =
                                       IF gc.dryRun THEN @
                                       ELSE Remaining(@, RemovedContainers(r.events))]
    /\ GCUnchanged

\* the images safeDanglingImagesCleanup leaves on the server
RECURSIVE WithoutDangling(_)
WithoutDangling(server) ==
    IF server = <<>> THEN <<>>
    ELSE IF Head(server).dangling = "removed" THEN WithoutDangling(Tail(server))
    ELSE <<Head(server)>> \o WithoutDangling(Tail(server))

GCSafeDanglingImagesCleanup ==
    /\ gc.pc = "safeDanglingImagesCleanup"
    /\ \E danglingErr \in BOOLEAN :
         gc' = IF danglingErr THEN GCReturn(gc, "safeDanglingImagesCleanup")
               ELSE [gc EXCEPT !.pc = "check",
                               !.server = IF gc.dryRun THEN @ ELSE WithoutDangling(@)]
    /\ GCUnchanged

\* from the second "if freedImagesCount == 0" to the end of the loop body
GCCheck ==
    /\ gc.pc = "check"
    /\ \E checkErr \in BOOLEAN, percentage \in Percentages :
         LET targetVolumeUsage ==
                 allowedVolumeUsagePercentage - allowedVolumeUsageMarginPercentage
             checkResult == GetLocalDockerServerStorageCheck(gc.server, percentage)
         IN  gc' = IF gc.freedImagesCount = 0 THEN GCReturn(gc, "nil")
                   ELSE IF gc.dryRun THEN GCReturn(gc, "nil")
                   ELSE IF checkErr
                   THEN GCReturn(gc, "error getting local docker server storage check")
                   ELSE IF checkResult.Percentage <= targetVolumeUsage
                   THEN GCReturn([gc EXCEPT !.checkResult = checkResult,
                                            !.events = <<>>], "nil")
                   ELSE gcStartPass([gc EXCEPT
                            !.checkResult = checkResult,
                            !.bytesToFree = GetBytesToFree(checkResult, targetVolumeUsage)])
    /\ GCUnchanged

NextGC ==
    \/ CallRunGCForLocalDockerServer
    \/ GCRef
    \/ GCImageDone
    \/ GCReleaseHostLock
    \/ GCSafeContainersCleanup
    \/ GCSafeDanglingImagesCleanup
    \/ GCCheck

SpecGC == InitGC /\ [][NextGC]_vars

\* the call goes on while it has not returned
SpecGCFair == SpecGC /\ WF_vars(NextGC)

----------------------------------------------------------------------------

(* Properties of path resolution and of the query surface. *)

ReturnedFrom(ops) == phase = "returned" /\ ret.op \in ops

ResolveOps == {"ResolveCommitFilePath", "ResolveAndCheckCommitFilePath"}

ExistOps == {"IsCommitFileExist", "IsCommitDirectoryExist"}

\* the path is ".." or starts with "../"
LeavesRepository(p) == Len(p) > 0 /\ p[1] = ".."

\* the resolution the returned call made
Resolution ==
    IF ret.op \in ResolveOps THEN ret.res ELSE ResolveCommitFilePath(tree, ret.path)

\* the target of the symlink read by log event e, joined to the link's directory
ComputedTarget(e) == PathJoin(PathDir(e.at), e.link)

IsChainTree == ChainName(1) \in DOMAIN tree

ChainLength == Cardinality(DOMAIN tree) - 1

\* C2: resolving the head of a chain of N symlinks ending in a regular file
\* gives the final entry when N <= 1000 and fails with "too many levels of
\* symbolic links" when N > 1000.
C2_ChainDepthLimit ==
    (ReturnedFrom({"ResolveCommitFilePath"}) /\ IsChainTree /\ ret.path = ChainName(1)) =>
        IF ChainLength <= 1000
        THEN ret.err = ErrNil /\ ret.res.path = ChainName(ChainLength + 1)
        ELSE ret.err = ErrTooManyLevels /\ ret.res.site = "depth"

C2_Witness ==
    /\ ReturnedFrom({"ResolveCommitFilePath"})
    /\ IsChainTree /\ ChainLength = 1001
    /\ ret.path = ChainName(1)
    /\ ret.err = ErrTooManyLevels

\* C3: a path whose entry exists and is not a symlink resolves to itself, and
\* resolving the result of a successful resolution gives it back unchanged.
C3_NonSymlinkPathResolvesToItself ==
    ReturnedFrom({"ResolveCommitFilePath"}) =>
        /\ (ret.path \in DOMAIN tree /\ tree[ret.path].mode # "Symlink")
              => (ret.err = ErrNil /\ ret.res.path = ret.path)
        /\ ret.err = ErrNil =>
              LET again == ResolveCommitFilePath(tree, ret.res.path) IN
              again.err = ErrNil /\ again.path = ret.res.path

C3_Witness ==
    /\ ReturnedFrom({"ResolveCommitFilePath"})
    /\ ret.path = <<"b", "c">>
    /\ ret.err = ErrNil
    /\ ret.res.path = <<"b", "c">>

\* C4: a path returned by a successful resolution names an entry of the tree
\* that is not a symlink, and is not ".." nor under "../".
C4_ResolvedPathIsInsideAndNotASymlink ==
    (ReturnedFrom(ResolveOps) /\ ret.err = ErrNil) =>
        /\ ret.res.path \in DOMAIN tree
        /\ tree[ret.res.path].mode \notin {"Symlink", "Malformed"}
        /\ ~LeavesRepository(ret.res.path)

C4_Witness ==
    /\ ReturnedFrom(ResolveOps)
    /\ ret.err = ErrNil
    /\ Len(ret.res.log) > 2
    /\ ret.res.path # ret.path

\* C5: ReadCommitFile returns the content of the entry at the resolved path:
\* for a symlink to a regular file, the file's bytes and not the link text
\* (a -> "b/c", b/c = "hello": reading a gives "hello").
C5_ReadReturnsResolvedContent ==
    ReturnedFrom({"ReadCommitFile"}) =>
        LET r == ResolveCommitFilePath(tree, ret.path) IN
        /\ r.err = ErrNil => (ret.err = ErrNil /\ ret.data = tree[r.path].data)
        /\ (ret.path = <<"a">> /\ LsTreeEntry(tree, <<"a">>) = Entry("Symlink", <<"b", "c">>))
              => ret.data = <<"hello">>

C5_Witness ==
    /\ ReturnedFrom({"ReadCommitFile"})
    /\ ret.path = <<"a">>
    /\ LsTreeEntry(tree, <<"a">>) = Entry("Symlink", <<"b", "c">>)
    /\ ret.data = <<"hello">>

\* C6: when the resolution of the path fails with the entry-not-found error,
\* the existence probes return false and no error.
C6_NotFoundCollapsesToFalse ==
    (ReturnedFrom(ExistOps) /\ Resolution.err.type = "treeEntryNotFoundInRepoErr")
        => (ret.exist = FALSE /\ ret.err = ErrNil)

C6_Witness ==
    /\ ReturnedFrom(ExistOps)
    /\ Resolution.site = "missing"
    /\ Len(Resolution.log) > 0
    /\ ret.exist = FALSE /\ ret.err = ErrNil

ResolvedMode == LsTreeEntry(tree, Resolution.path).mode

\* C20: IsCommitFileExist is true exactly when the path resolves to an entry
\* of mode Regular, Deprecated or Executable, IsCommitDirectoryExist exactly
\* when it resolves to an entry of mode Dir or Submodule; when one is true
\* the other is false for the same path; a symlink to a directory is a
\* directory and not a file.
C20_ExistenceProbesFollowTheResolvedMode ==
    /\ ReturnedFrom({"IsCommitFileExist"}) =>
          /\ ret.exist <=> ( /\ Resolution.err = ErrNil
                             /\ ResolvedMode \in {"Regular", "Deprecated", "Executable"} )
          /\ ret.exist => ~isCommitDirectoryExist(tree, ret.path).exist
    /\ ReturnedFrom({"IsCommitDirectoryExist"}) =>
          /\ ret.exist <=> ( /\ Resolution.err = ErrNil
                             /\ ResolvedMode \in {"Dir", "Submodule"} )
          /\ ret.exist => ~isCommitFileExist(tree, ret.path).exist
    /\ ( /\ ReturnedFrom(ExistOps)
         /\ ret.path = <<"a">>
         /\ LsTreeEntry(tree, <<"a">>) = Entry("Symlink", <<"b">>) )
       => (ret.exist <=> ret.op = "IsCommitDirectoryExist")

C20_Witness ==
    /\ ReturnedFrom({"IsCommitDirectoryExist"})
    /\ ret.path = <<"a">>
    /\ LsTreeEntry(tree, <<"a">>) = Entry("Symlink", <<"b">>)
    /\ ret.exist /\ ret.err = ErrNil

----------------------------------------------------------------------------
(* Properties of the status validation. *)

Validated == phase = "returned" /\ vret.op = "ValidateStatusResult"

SomeMatched(pathList) == \E i \in 1 .. Len(pathList) : pathList[i] \in matcher.paths

\* the scope the options select, by the data model: the working tree alone,
\* or the index and the working tree together
SelectedPaths(opts) ==
    IF opts.OnlyWorktreeChanges THEN status.Worktree.PathList
    ELSE status.Index.PathList \o status.Worktree.PathList

SelectedSubmodules(opts) ==
    IF opts.OnlyWorktreeChanges THEN status.Worktree.Submodules
    ELSE status.Index.Submodules \o status.Worktree.Submodules

\* C8: when some untracked path is matched, ValidateStatusResult returns
\* UntrackedFilesFound, whatever the scopes, the submodules and the options.
C8_UntrackedFirst ==
    (Validated /\ SomeMatched(status.UntrackedPathList))
        => vret.violation.kind = "UntrackedFilesFound"

C8_Witness ==
    /\ Validated
    /\ ~vret.opts.OnlyUntrackedChanges
    /\ status.UntrackedPathList = <<"bar", "foo.txt">>
    /\ matcher.paths = {"foo.txt"}
    /\ SomeMatched(SelectedPaths(vret.opts))
    /\ \E i \in 1 .. Len(SelectedSubmodules(vret.opts)) :
          /\ SelectedSubmodules(vret.opts)[i].Path \in matcher.dirs
          /\ SelectedSubmodules(vret.opts)[i].IsAdded
    /\ vret.violation.kind = "UntrackedFilesFound"

\* C9: with OnlyUntrackedChanges, ValidateStatusResult returns
\* UntrackedFilesFound or no violation, whatever OnlyWorktreeChanges is.
C9_OnlyUntrackedStopsAfterUntracked ==
    (Validated /\ vret.opts.OnlyUntrackedChanges)
        => vret.violation.kind \in {"UntrackedFilesFound", "nil"}

C9_Witness ==
    /\ Validated
    /\ vret.opts.OnlyUntrackedChanges
    /\ ~vret.opts.OnlyWorktreeChanges
    /\ ~SomeMatched(status.UntrackedPathList)
    /\ SomeMatched(SelectedPaths(vret.opts))
    /\ \E i \in 1 .. Len(SelectedSubmodules(vret.opts)) :
          /\ SelectedSubmodules(vret.opts)[i].Path \in matcher.dirs
          /\ SelectedSubmodules(vret.opts)[i].IsDeleted
    /\ vret.violation.kind = "nil"

\* the violations in priority order, each with the flags that make it apply
SubmodulePriority(sm) ==
    << <<"SubmoduleAddedAndNotCommitted", sm.IsAdded>>,
       <<"SubmoduleDeleted", sm.IsDeleted>>,
       <<"SubmoduleHasUntrackedChanges", sm.IsModified /\ sm.HasUntrackedChanges>>,
       <<"SubmoduleHasUncommittedChanges", sm.IsModified /\ sm.HasTrackedChanges>>,
       <<"SubmoduleCommitChanged", sm.IsModified /\ sm.IsCommitChanged>> >>

HighestPriority(sm) ==
    LET pr == SubmodulePriority(sm)
        applicable == {i \in 1 .. Len(pr) : pr[i][2]}
    IN IF applicable = {} THEN "nil"
       ELSE pr[CHOOSE i \in applicable : \A j \in applicable : i <= j][1]

\* the submodules of the selected scope the matcher accepts
MatchedSubmodules(opts) ==
    SelectSeq(SelectedSubmodules(opts), LAMBDA sm : sm.Path \in matcher.dirs)

\* C10: when the validation reaches the submodules and one submodule is
\* matched, the violation is the first that applies in the order Added,
\* Deleted, then within Modified: HasUntrackedChanges, HasTrackedChanges,
\* CommitChanged; it names that submodule; none applies: no violation.
C10_SubmodulePriority ==
    ( /\ Validated
      /\ ~vret.opts.OnlyUntrackedChanges
      /\ ~SomeMatched(status.UntrackedPathList)
      /\ ~SomeMatched(SelectedPaths(vret.opts))
      /\ Len(MatchedSubmodules(vret.opts)) = 1 )
    => LET sm == MatchedSubmodules(vret.opts)[1] IN
       /\ vret.violation.kind = HighestPriority(sm)
       /\ vret.violation.kind # "nil" => vret.violation.SubmodulePath = sm.Path

C10_Witness ==
    /\ Validated
    /\ Len(MatchedSubmodules(vret.opts)) = 1
    /\ MatchedSubmodules(vret.opts)[1] =
          Submodule("sub", {"Modified", "HasUntrackedChanges", "HasTrackedChanges",
                            "CommitChanged"})
    /\ vret.violation = Violation("SubmoduleHasUntrackedChanges", <<>>, "sub")

InMatcher(path) == path \in matcher.paths

Range(seq) == {seq[i] : i \in 1 .. Len(seq)}

\* C11: UntrackedFilesFound carries the untracked paths the matcher accepts,
\* in the order of the snapshot, none unmatched and none missing (one
\* untracked matched foo.txt gives ["foo.txt"]); UncommittedFilesFound carries
\* exactly the paths of the selected scope the matcher accepts.
C11_ViolationCarriesTheMatchedPaths ==
    Validated =>
        /\ vret.violation.kind = "UntrackedFilesFound" =>
              vret.violation.PathList = SelectSeq(status.UntrackedPathList, InMatcher)
        /\ (status.UntrackedPathList = <<"foo.txt">> /\ InMatcher("foo.txt")) =>
              vret.violation = Violation("UntrackedFilesFound", <<"foo.txt">>, "")
        /\ vret.violation.kind = "UncommittedFilesFound" =>
              /\ Range(vret.violation.PathList) =
                    {p \in Range(SelectedPaths(vret.opts)) : InMatcher(p)}
              /\ vret.violation.PathList # <<>>

C11_Witness ==
    /\ Validated
    /\ status.UntrackedPathList = <<"bar", "foo.txt">>
    /\ matcher.paths = {"foo.txt"}
    /\ vret.violation = Violation("UntrackedFilesFound", <<"foo.txt">>, "")

\* the validation gets past the untracked paths to the selected scope
ReachesScope ==
    /\ Validated
    /\ ~vret.opts.OnlyUntrackedChanges
    /\ ~SomeMatched(status.UntrackedPathList)

SomeSubmoduleMatched(submodules) ==
    \E i \in 1 .. Len(submodules) : submodules[i].Path \in matcher.dirs

\* C12: with OnlyWorktreeChanges only the Worktree scope is examined: when no
\* path and no submodule of the Worktree scope is matched there is no
\* violation, whatever the Index scope holds, and an UncommittedFilesFound
\* carries Worktree paths only; without it a matched path of the Index scope
\* or of the Worktree scope gives UncommittedFilesFound.
C12_ScopeSelection ==
    ReachesScope =>
        IF vret.opts.OnlyWorktreeChanges
        THEN /\ ( /\ ~SomeMatched(status.Worktree.PathList)
                  /\ ~SomeSubmoduleMatched(status.Worktree.Submodules) )
                => vret.violation = NoViolation
             /\ SomeMatched(status.Worktree.PathList) =>
                   /\ vret.violation.kind = "UncommittedFilesFound"
                   /\ Range(vret.violation.PathList) \subseteq Range(status.Worktree.PathList)
        ELSE (SomeMatched(status.Index.PathList) \/ SomeMatched(status.Worktree.PathList))
                => vret.violation.kind = "UncommittedFilesFound"

C12_Witness ==
    /\ ReachesScope
    /\ vret.opts.OnlyWorktreeChanges
    /\ SomeMatched(status.Index.PathList)
    /\ SomeSubmoduleMatched(status.Index.Submodules)
    /\ status.Index.Submodules[1].IsDeleted
    /\ vret.violation = NoViolation

\* C13: when no untracked path is matched, no path of the selected scope is
\* matched and no submodule of the selected scope is matched, there is no
\* violation; so for a clean snapshot and a matcher that accepts everything.
C13_NothingMatchedNoViolation ==
    ( /\ Validated
      /\ ~SomeMatched(status.UntrackedPathList)
      /\ ~SomeMatched(SelectedPaths(vret.opts))
      /\ ~SomeSubmoduleMatched(SelectedSubmodules(vret.opts)) )
    => vret.violation = NoViolation

C13_Witness ==
    /\ Validated
    /\ status = NoStatus
    /\ matcher = [paths |-> StatusPaths, dirs |-> StatusPaths]
    /\ ~vret.opts.OnlyUntrackedChanges
    /\ vret.violation = NoViolation

Listed == phase = "returned" /\ vret.op = "StatusPathList"

\* C14: the list StatusPathList returns has no path twice.
C14_StatusPathListHasNoDuplicates ==
    Listed =>
        \A i, j \in 1 .. Len(vret.list) : vret.list[i] = vret.list[j] => i = j

C14_Witness ==
    /\ Listed
    /\ ~vret.opts.OnlyUntrackedChanges
    /\ "foo.txt" \in Range(status.UntrackedPathList) \cap Range(SelectedPaths(vret.opts))
    /\ InMatcher("foo.txt")
    /\ "sub" \in Range(SelectedPaths(vret.opts)) /\ InMatcher("sub")
    /\ SomeSubmoduleMatched(SelectedSubmodules(vret.opts))
    /\ Cardinality({i \in 1 .. Len(vret.list) : vret.list[i] = "foo.txt"}) = 1
    /\ Cardinality({i \in 1 .. Len(vret.list) : vret.list[i] = "sub"}) = 1

MatchedUntracked == {p \in Range(status.UntrackedPathList) : InMatcher(p)}

MatchedScopePaths(opts) == {p \in Range(SelectedPaths(opts)) : InMatcher(p)}

MatchedSubmodulePaths(opts) ==
    {sm.Path : sm \in {x \in Range(SelectedSubmodules(opts)) : x.Path \in matcher.dirs}}

\* C15 as stated: the list is, as a set, the matched untracked paths, with
\* the matched paths of the selected scope unless OnlyUntrackedChanges, with
\* the matched submodule paths of the selected scope.
C15_Original ==
    Listed =>
        Range(vret.list) =
            MatchedUntracked
                \cup (IF vret.opts.OnlyUntrackedChanges THEN {}
                      ELSE MatchedScopePaths(vret.opts))
                \cup MatchedSubmodulePaths(vret.opts)

\* C15 as amended: with OnlyUntrackedChanges the list is the matched untracked
\* paths alone: the matched paths and the matched submodule paths of the
\* selected scope are both left out; without it the list is the union of the
\* three.
C15_OnlyUntrackedLeavesOutSubmodulesToo ==
    Listed =>
        Range(vret.list) =
            MatchedUntracked
                \cup (IF vret.opts.OnlyUntrackedChanges THEN {}
                      ELSE MatchedScopePaths(vret.opts)
                               \cup MatchedSubmodulePaths(vret.opts))

C15_Witness ==
    /\ Listed
    /\ vret.opts.OnlyUntrackedChanges
    /\ MatchedUntracked # {}
    /\ MatchedScopePaths(vret.opts) # {}
    /\ "sub" \in MatchedSubmodulePaths(vret.opts)
    /\ "sub" \notin Range(vret.list)

----------------------------------------------------------------------------
(* Properties of the two mutexes of the handle. *)

InStatus(t) == threads[t].pc \in {"statusLocked", "statusComputed"}

\* C16 as stated: status.Status is invoked once in the lifetime of the handle,
\* and every status operation that has returned got the one cached result.
C16_Original ==
    /\ Len(handle.statusCalls) <= 1
    /\ \A t \in Threads :
          (threads[t].pc = "idle" /\ threads[t].op \in StatusOps)
              => threads[t].seen = handle.statusResult

\* C16 as amended: one goroutine at a time is inside Local.status, the others
\* wait at the mutex; an invocation of status.Status that fails is not cached
\* and the next caller invokes it again; once an invocation has succeeded its
\* result is the cached one, it is never invoked again, and every status
\* operation that returns a result returns that one.
C16_StatusComputedOnceItSucceeds ==
    /\ \A t, u \in Threads : (InStatus(t) /\ InStatus(u)) => t = u
    /\ \A t \in Threads : InStatus(t) <=> handle.mutex = t
    /\ \A i \in 1 .. Len(handle.statusCalls) - 1 : handle.statusCalls[i] = "error"
    /\ handle.statusResult # "nil" =>
          handle.statusCalls[Len(handle.statusCalls)] = handle.statusResult
    /\ \A t \in Threads :
          (threads[t].pc = "idle" /\ threads[t].op \in StatusOps)
              => threads[t].seen \in {"statusError", handle.statusResult}
    /\ \A t \in Threads :
          (threads[t].pc = "idle" /\ threads[t].seen = "statusError")
              => \E i \in 1 .. Len(handle.statusCalls) : handle.statusCalls[i] = "error"

C16_Witness ==
    /\ handle.statusCalls = <<"error", "s2">>
    /\ threads["t1"] = [pc |-> "idle", op |-> "StatusPathList", stage |-> 1,
                        calls |-> 2, seen |-> "s2"]
    /\ threads["t2"].pc = "idle" /\ threads["t2"].op = "ValidateStatusResult"
    /\ threads["t2"].seen = "s2"

\* C17: at most one goroutine at a time is executing on the go-git repository,
\* and it holds the mutex; a goroutine that is not executing on it does not
\* hold the mutex, whether its access succeeded or failed, so the mutex is
\* unlocked once every operation has returned.
C17_RepositoryAccessIsExclusive ==
    /\ \A t, u \in Threads :
          (threads[t].pc = "inRepository" /\ threads[u].pc = "inRepository") => t = u
    /\ \A t \in Threads :
          threads[t].pc = "inRepository" <=> handle.nonThreadSafeRepositoryMutex = t
    /\ (\A t \in Threads : threads[t].pc = "idle")
          => handle.nonThreadSafeRepositoryMutex = "unlocked"

C17_Witness ==
    /\ threads["t1"].pc = "repository"
    /\ threads["t1"].calls = 1
    /\ threads["t1"].seen = "repositoryError"
    /\ threads["t2"].pc = "inRepository"
    /\ threads["t2"].op = "ReadCommitTreeEntryContent"
    /\ threads["t2"].stage = 2
    /\ handle.nonThreadSafeRepositoryMutex = "t2"

----------------------------------------------------------------------------
(* Properties of OpenLocalRepo and of the head commit of the handle. *)

Before(log, a, b) ==
    \A i \in 1 .. Len(log) : log[i] = b => \E j \in 1 .. (i - 1) : log[j] = a

\* C18: with a service head commit asked for, the host lock is acquired
\* before the synchronization starts and is held, by this process alone, as
\* long as it runs; it is not held any more when OpenLocalRepo has returned,
\* with or without an error; when lockGC fails no synchronization is started.
C18_HostLockAroundSynchronization ==
    /\ Before(open.log, "acquire", "syncStart")
    /\ open.pc = "Syncing" => (open.holds > 0 /\ ~open.other)
    /\ open.pc = "returned" => open.holds = 0
    /\ (open.pc = "returned" /\ open.err = "lockGC") =>
          \A i \in 1 .. Len(open.log) : open.log[i] # "syncStart"
    /\ \A i \in 1 .. Len(open.log) : open.log[i] = "syncStart" => open.WithServiceHeadCommit

C18_Witness ==
    /\ open.pc = "returned"
    /\ open.err = "sync"
    /\ open.log = <<"acquire", "syncStart", "syncEnd", "release">>
    /\ open.holds = 0

\* the head commit the handle is opened with
OpenedHeadCommit ==
    IF open.WithServiceHeadCommit /\ open.synced # "none"
    THEN open.synced ELSE open.captured

\* C19: on a handle OpenLocalRepo has returned, every HeadCommit call returns
\* the same commit: the synthesized one when a service head commit was asked
\* for and the synchronization succeeded (it is not a head of the work tree),
\* else the head read at construction; commits made since and other
\* operations on the handle do not change it.
C19_HeadCommitIsFixed ==
    (open.pc = "returned" /\ open.l = "l") =>
        /\ open.got \subseteq {OpenedHeadCommit}
        /\ (open.WithServiceHeadCommit /\ open.err = "nil") =>
              (open.synced # "none" /\ OpenedHeadCommit \notin Heads)
        /\ ~open.WithServiceHeadCommit => OpenedHeadCommit \in Heads

C19_Witness ==
    /\ open.pc = "returned"
    /\ open.l = "l"
    /\ open.WithServiceHeadCommit
    /\ open.err = "nil"
    /\ open.head # open.captured
    /\ open.ops = MaxCalls
    /\ open.got = {ServiceCommit(open.captured, open.WithStagedChangesOnly)}

----------------------------------------------------------------------------
(* Properties of the order of the violations. *)

\* the violations from the highest priority to the lowest
ViolationPriority ==
    <<"UntrackedFilesFound", "UncommittedFilesFound",
      "SubmoduleAddedAndNotCommitted", "SubmoduleDeleted",
      "SubmoduleHasUntrackedChanges", "SubmoduleHasUncommittedChanges",
      "SubmoduleCommitChanged">>

\* the violations that apply to the status under the options of the call
ApplicableViolations(opts) ==
    (IF SomeMatched(status.UntrackedPathList) THEN {"UntrackedFilesFound"} ELSE {})
    \cup
    (IF opts.OnlyUntrackedChanges THEN {}
     ELSE (IF SomeMatched(SelectedPaths(opts)) THEN {"UncommittedFilesFound"} ELSE {})
          \cup
          UNION { {SubmodulePriority(MatchedSubmodules(opts)[i])[k][1] :
                      k \in {n \in 1 .. 5 :
                                SubmodulePriority(MatchedSubmodules(opts)[i])[n][2]}} :
                  i \in 1 .. Len(MatchedSubmodules(opts)) })

HighestApplicable(opts) ==
    LET at == {i \in 1 .. Len(ViolationPriority) :
                  ViolationPriority[i] \in ApplicableViolations(opts)}
    IN IF at = {} THEN "nil"
       ELSE ViolationPriority[CHOOSE i \in at : \A j \in at : i <= j]

\* C22 as stated: the violation ValidateStatusResult returns is the one of
\* highest priority among all that apply, also across several matched
\* submodules.
C22_Original ==
    Validated => vret.violation.kind = HighestApplicable(vret.opts)

\* the matched submodules of the scope whose chain finds a violation
SubmodulesWithViolation(opts) ==
    SelectSeq(MatchedSubmodules(opts), LAMBDA sm : HighestPriority(sm) # "nil")

\* C22: ValidateStatusResult returns one violation or none: untracked files
\* before uncommitted files before submodules, and among the submodules the
\* first matched one, in the order of the scope, to which a violation
\* applies, with the highest-priority violation of that submodule.
C22_FirstSubmoduleWithViolation ==
    Validated =>
        IF SomeMatched(status.UntrackedPathList)
        THEN vret.violation.kind = "UntrackedFilesFound"
        ELSE IF vret.opts.OnlyUntrackedChanges
        THEN vret.violation = NoViolation
        ELSE IF SomeMatched(SelectedPaths(vret.opts))
        THEN vret.violation.kind = "UncommittedFilesFound"
        ELSE IF SubmodulesWithViolation(vret.opts) = <<>>
        THEN vret.violation = NoViolation
        ELSE LET sm == SubmodulesWithViolation(vret.opts)[1] IN
             vret.violation = Violation(HighestPriority(sm), <<>>, sm.Path)

C22_Witness ==
    /\ Validated
    /\ MatchedSubmodules(vret.opts) =
          <<Submodule("sub", {"Modified", "CommitChanged"}),
            Submodule("sub2", {"Added"})>>
    /\ HighestApplicable(vret.opts) = "SubmoduleAddedAndNotCommitted"
    /\ vret.violation = Violation("SubmoduleCommitChanged", <<>>, "sub")

\* a matched submodule of the selected scope has one of the six flags set
SomeMatchedSubmoduleFlagged(opts) ==
    \E i \in 1 .. Len(MatchedSubmodules(opts)) :
        LET sm == MatchedSubmodules(opts)[i] IN
        \/ sm.IsAdded \/ sm.IsDeleted \/ sm.IsModified
        \/ sm.HasUntrackedChanges \/ sm.HasTrackedChanges \/ sm.IsCommitChanged

\* C23 as stated: with OnlyUntrackedChanges unset and a matched submodule of
\* the selected scope carrying at least one of the six flags,
\* ValidateStatusResult returns a violation, never nil.
C23_NoSubmoduleStateSlipsThrough ==
    ( /\ Validated
      /\ ~vret.opts.OnlyUntrackedChanges
      /\ SomeMatchedSubmoduleFlagged(vret.opts) )
    => vret.violation # NoViolation

----------------------------------------------------------------------------
(* Properties of the component walk. *)

\* the events of one kind in a log, in order
EventsOf(log, kind) == SelectSeq(log, LAMBDA e : e.ev = kind)

NoDotDot(p) == \A i \in 1 .. Len(p) : p[i] # ".."

\* C24: when a proper prefix L of the path is a symlink whose target is the
\* directory D and D/rest is an entry that is not a symlink, resolving L/rest
\* returns D/rest and follows one symlink, L, once.
C24_SymlinkedDirectoryPrefix ==
    ReturnedFrom({"ResolveCommitFilePath"}) =>
        \A k \in 1 .. (Len(ret.path) - 1) :
            LET L == SubSeq(ret.path, 1, k)
                rest == SubSeq(ret.path, k + 1, Len(ret.path))
                link == LsTreeEntry(tree, L)
                D == PathJoin(PathDir(L), link.data)
            IN
            ( /\ link.mode = "Symlink"
              /\ ~PathIsAbs(link.data)
              /\ LsTreeEntry(tree, D).mode = "Dir"
              /\ NoDotDot(rest)
              /\ LsTreeEntry(tree, D \o rest).mode \notin {"Symlink", "Malformed"} )
            => /\ ret.err = ErrNil
               /\ ret.res.path = D \o rest
               /\ EventsOf(ret.res.log, "follow") = <<Ev("follow", L, link.data, D)>>

C24_Witness ==
    /\ ReturnedFrom({"ResolveCommitFilePath"})
    /\ ret.path = <<"a", "c">>
    /\ LsTreeEntry(tree, <<"a">>) = Entry("Symlink", <<"b">>)
    /\ ret.err = ErrNil
    /\ ret.res.path = <<"b", "c">>
    /\ EventsOf(ret.res.log, "follow") = <<Ev("follow", <<"a">>, <<"b">>, <<"b">>)>>

\* the walk of the returned call followed a symlink: the first one it
\* followed, the components of the path after it, and the result of the
\* recursive call made on its target
FollowedSymlink ==
    /\ ReturnedFrom({"ResolveCommitFilePath"})
    /\ EventsOf(ret.res.log, "follow") # <<>>

FirstFollowed == EventsOf(ret.res.log, "follow")[1]

RestAfterFirstFollowed ==
    SubSeq(ret.path, Len(FirstFollowed.at) + 1, Len(ret.path))

ResolvedTarget == resolveCommitFilePath(tree, FirstFollowed.target, 1, "nil")

\* C25 as stated: once the walk has followed a symlink, the resolved target
\* is the rest of the result: no later component of the path is joined to it.
C25_Original ==
    (FollowedSymlink /\ ResolvedTarget.err = ErrNil)
        => (ret.err = ErrNil /\ ret.res.path = ResolvedTarget.path)

\* C25: when a component of the walk is a symlink, the result of the
\* recursive call on its target replaces the accumulated prefix, and the
\* walk goes on from it with the components of the path after the symlink:
\* the result is that of resolving the resolved target joined with those
\* components, and a failure of the recursive call is the failure returned.
C25_ResolvedTargetReplacesThePrefix ==
    FollowedSymlink =>
        IF ResolvedTarget.err # ErrNil
        THEN ret.err = ResolvedTarget.err /\ ret.res.path = <<>>
        ELSE LET onward == ResolveCommitFilePath(
                               tree, ResolvedTarget.path \o RestAfterFirstFollowed)
             IN ret.err = onward.err /\ ret.res.path = onward.path

C25_Witness ==
    /\ FollowedSymlink
    /\ ret.path = <<"a", "l">>
    /\ LsTreeEntry(tree, <<"a">>) = Entry("Symlink", <<"b">>)
    /\ LsTreeEntry(tree, <<"b", "l">>) = Entry("Symlink", <<"c">>)
    /\ ResolvedTarget.path = <<"b">>
    /\ RestAfterFirstFollowed = <<"l">>
    /\ ret.res.path = <<"b", "c">>

----------------------------------------------------------------------------
(* Properties of termination of the resolution. *)

Symlinks(t) == {p \in DOMAIN t : t[p].mode = "Symlink"}

\* the symlink the resolution of the target of the symlink p comes to first:
\* the shortest prefix of the computed target that is a symlink, <<>> if none
NextLink(t, p) ==
    LET target == PathJoin(PathDir(p), t[p].data)
        at == {k \in 1 .. Len(target) : SubSeq(target, 1, k) \in Symlinks(t)}
    IN IF ~(p \in Symlinks(t)) \/ PathIsAbs(t[p].data) \/ at = {} THEN <<>>
       ELSE SubSeq(target, 1, CHOOSE k \in at : \A j \in at : k <= j)

RECURSIVE FollowLinks(_, _, _)
FollowLinks(t, p, n) ==
    IF n = 0 \/ p = <<>> THEN p ELSE FollowLinks(t, NextLink(t, p), n - 1)

\* following the links from p never ends: after as many links as the tree
\* has symlinks, one of them has been come to twice
RunsIntoCycle(t, p) ==
    p \in Symlinks(t) /\ FollowLinks(t, p, Cardinality(Symlinks(t))) # <<>>

\* C26: every resolution ends within the step bound; a path with a prefix
\* that is a symlink running into a cycle fails, at the depth limit unless
\* the hook has failed before; the head of a chain longer than the limit
\* fails.
C26_ResolutionTerminates ==
    ReturnedFrom(ResolveOps) =>
        /\ ret.res.site # "none"
        /\ ( /\ ~IsChainTree
             /\ \E k \in 1 .. Len(ret.path) :
                    RunsIntoCycle(tree, SubSeq(ret.path, 1, k)) )
           => /\ ret.err # ErrNil
              /\ ret.res.site \in {"depth", "check"}
              /\ ret.res.site = "depth" => ret.err = ErrTooManyLevels
              /\ ret.check \in {"nil", "accept"} => ret.res.site = "depth"
        /\ (IsChainTree /\ ChainLength > MaxSymlinkDepth /\ ret.path = ChainName(1))
           => ret.err # ErrNil

\* a cycle of two symlinks
C26_Witness ==
    /\ ReturnedFrom({"ResolveCommitFilePath"})
    /\ LsTreeEntry(tree, <<"a">>) = Entry("Symlink", <<"b", "l">>)
    /\ LsTreeEntry(tree, <<"b", "l">>) = Entry("Symlink", <<"..", "a">>)
    /\ ret.path = <<"b", "l">>
    /\ RunsIntoCycle(tree, <<"b", "l">>)
    /\ ret.err = ErrTooManyLevels
    /\ Len(EventsOf(ret.res.log, "follow")) = MaxSymlinkDepth + 1

\* a symlink whose target passes through the symlink
C26_WitnessThroughItself ==
    /\ ReturnedFrom({"ResolveCommitFilePath"})
    /\ LsTreeEntry(tree, <<"a">>) = Entry("Symlink", <<"a", "c">>)
    /\ ret.path = <<"a", "c">>
    /\ ret.err = ErrTooManyLevels

----------------------------------------------------------------------------
(* Properties of the hook calls of ResolveAndCheckCommitFilePath. *)

\* the hook of the call returns an error for this target
HookRejects(check, target) ==
    \/ check = "reject"
    \/ check = "rejectSome" /\ target \in RejectedTargets

SameHop(e1, e2) == e1.at = e2.at /\ e1.link = e2.link

\* C27: in ResolveAndCheckCommitFilePath every symlink read whose target is
\* relative and stays in the repository is next given to the hook, with the
\* computed target; a target is followed only right after the hook was
\* called with it and accepted it; a hook error is the last thing that
\* happens and is the error returned.
C27_HookOnEveryHop ==
    ReturnedFrom({"ResolveAndCheckCommitFilePath"}) =>
        LET log == ret.res.log IN
        \A i \in 1 .. Len(log) :
            /\ log[i].ev = "read" =>
                  IF i = Len(log)
                  THEN ret.res.site \in {"absolute", "escape"}
                  ELSE /\ log[i + 1].ev = "check"
                       /\ SameHop(log[i], log[i + 1])
                       /\ log[i + 1].target = ComputedTarget(log[i])
            /\ log[i].ev = "check" =>
                  /\ i > 1 /\ log[i - 1].ev = "read"
                  /\ IF HookRejects(ret.check, log[i].target)
                     THEN /\ i = Len(log)
                          /\ ret.res.site = "check"
                          /\ ret.err = ErrCheckFailed(log[i].target)
                          /\ ret.res.path = <<>>
                     ELSE /\ i < Len(log)
                          /\ log[i + 1] = [log[i] EXCEPT !.ev = "follow"]
            /\ log[i].ev = "follow" =>
                  /\ i > 1
                  /\ log[i - 1] = [log[i] EXCEPT !.ev = "check"]

\* the hook accepts the first target b/l and rejects the intermediate b/c
C27_Witness ==
    /\ ReturnedFrom({"ResolveAndCheckCommitFilePath"})
    /\ ret.check = "rejectSome"
    /\ ret.path = <<"b", "l">>
    /\ LsTreeEntry(tree, <<"b", "l">>) = Entry("Symlink", <<"..", "a">>)
    /\ LsTreeEntry(tree, <<"a">>) = Entry("Symlink", <<"b", "c">>)
    /\ EventsOf(ret.res.log, "check") =
          << Ev("check", <<"b", "l">>, <<"..", "a">>, <<"a">>),
             Ev("check", <<"a">>, <<"b", "c">>, <<"b", "c">>) >>
    /\ EventsOf(ret.res.log, "follow") =
          << Ev("follow", <<"b", "l">>, <<"..", "a">>, <<"a">>) >>
    /\ ret.err = ErrCheckFailed(<<"b", "c">>)

----------------------------------------------------------------------------
(* Properties of the walk and glob operations. *)

Walked(ops) == walk.pc = "returned" /\ walk.op \in ops

\* C21 as stated: every path ListCommitFilesWithGlob returns is relative to
\* the passed dir: it does not have dir as its prefix, and joined to dir it
\* is a path below the walked directory, in the names of the query.
C21_GlobResultsRelativeToDir ==
    (Walked({"ListCommitFilesWithGlob"}) /\ walk.err = ErrNil) =>
        \A i \in 1 .. Len(walk.result) :
            /\ walk.queryDir # <<>> => ~IsPrefix(walk.queryDir, walk.result[i])
            /\ IsPrefix(walk.dir, PathJoin(walk.queryDir, walk.result[i]))

\* C28: no step of WalkCommitFiles, ReadCommitTreeEntryContent or
\* GetOrCreateChecksum locks nonThreadSafeRepositoryMutex while the caller
\* holds it; the mutex is held only inside lsTreeResult and the other
\* functions given to withNonThreadSafeRepository, never when fileFunc is
\* called or a nested WalkCommitFiles starts; ReadCommitTreeEntryContent
\* locks it twice, the second time after the first was unlocked.
C28_GuardNeverNested ==
    /\ walk.pc # "deadlock"
    /\ ~walk.heldInFileFunc
    /\ walk.guard = "locked" <=>
          \/ walk.inGuarded
          \/ Len(walk.stack) > 0 /\ Top(walk).pc = "lsTreeLocked"
    /\ Walked({"ReadCommitTreeEntryContent"}) => walk.locks = 2
    /\ Walked({"GetOrCreateChecksum"}) => walk.locks = 1
    /\ walk.pc \in {"returned", "cut"} => walk.guard = "unlocked"

C28_Witness ==
    /\ Walked({"WalkCommitFiles"})
    /\ walk.dir = <<"b">>
    /\ LsTreeEntry(tree, <<"b", "l">>) = Entry("Symlink", <<"..", "d">>)
    /\ \E i \in 1 .. Len(walk.calls) : walk.calls[i] = <<"b", "l", "f">>
    /\ walk.locks > 2
    /\ ~walk.heldInFileFunc

C28_WitnessRead ==
    /\ Walked({"ReadCommitTreeEntryContent"})
    /\ walk.dir = <<"b", "c">>
    /\ walk.result = <<"hello">>
    /\ walk.locks = 2

\* C29: every path given to fileFunc starts with the dir the walk was
\* called with, whatever dir and the symlinks below it resolve to.
C29_CallbackPathsStartWithDir ==
    walk.op \in {"WalkCommitFiles", "ListCommitFilesWithGlob"} =>
        \A i \in 1 .. Len(walk.calls) : IsPrefix(walk.dir, walk.calls[i])

\* dir is a symlink to b, and the symlink b/l below it is one to d
C29_Witness ==
    /\ Walked({"WalkCommitFiles"})
    /\ walk.dir = <<"a">>
    /\ LsTreeEntry(tree, <<"a">>) = Entry("Symlink", <<"b">>)
    /\ LsTreeEntry(tree, <<"b", "l">>) = Entry("Symlink", <<"..", "d">>)
    /\ LsTreeEntry(tree, <<"d", "e", "k">>) = Entry("Symlink", <<"h">>)
    /\ walk.calls = << <<"a", "c">>, <<"a", "l", "e", "h">>, <<"a", "l", "e", "k">>,
                       <<"a", "l", "f">> >>

\* C30 as stated: the recursion of WalkCommitFiles into symlinked
\* directories is bounded: with a matcher that accepts every path, no
\* directory is walked again inside its own walk.  (A walk inside a walk of
\* the same resolved directory lists the same entries and comes to the same
\* symlink, so it is nested in itself again, without end.)
C30_WalkRecursionBounded ==
    walk.op = "WalkCommitFiles" =>
        \A i, j \in 1 .. Len(walk.stack) :
            (i < j /\ walk.stack[i].pc # "enter" /\ walk.stack[j].pc # "enter")
                => walk.stack[i].resolvedDir # walk.stack[j].resolvedDir

----------------------------------------------------------------------------
(* Properties of the host lock requests of OpenLocalRepo. *)

CountOf(log, x) == Cardinality({i \in 1 .. Len(log) : log[i] = x})

\* C31 as stated: during OpenLocalRepo the host lock is never requested
\* while a host lock acquired earlier in the call is still unreleased, and
\* when the call has returned every acquisition has had its one release.
C31_HostLockRequestsDoNotNest ==
    /\ \A i \in 1 .. Len(open.log) : open.log[i] # "requestHeld"
    /\ open.holds <= 1
    /\ open.pc = "returned" =>
          /\ open.holds = 0
          /\ CountOf(open.log, "acquire") = CountOf(open.log, "release")

----------------------------------------------------------------------------
(* Properties of the on-demand Kubernetes initializer. *)

\* C37: after a call of Init has succeeded every later call returns nil and
\* invokes neither kube.Init nor InitKubedog, so the two steps succeed
\* together at most once; a call in which a step fails returns the error and
\* leaves the initializer uninitialized, and the call after it starts again
\* with kube.Init and goes on to InitKubedog when kube.Init succeeds.
C37_InitializesAtMostOnce ==
    /\ \A i \in 1 .. Len(kube.calls) :
         LET c == kube.calls[i]
         IN  /\ c.before => c.err = "nil" /\ c.invoked = <<>> /\ c.after
             /\ c.err # "nil" => ~c.after
             /\ ~c.before /\ c.err = "nil" =>
                   c.after /\ c.invoked = <<"kube.Init", "InitKubedog">>
             /\ i > 1 /\ kube.calls[i - 1].err # "nil" =>
                   /\ c.invoked # <<>>
                   /\ c.invoked[1] = "kube.Init"
                   /\ c.kubeInit = "ok" => c.invoked = <<"kube.Init", "InitKubedog">>
    /\ Cardinality({i \in 1 .. Len(kube.calls) :
                      kube.calls[i].invoked = <<"kube.Init", "InitKubedog">>
                      /\ kube.calls[i].err = "nil"}) <= 1
    /\ kube.initializer.initialized <=>
          \E i \in 1 .. Len(kube.calls) : kube.calls[i].after

\* both kinds of failure, then the success, then a call that does nothing
C37_Witness ==
    /\ Len(kube.calls) = 4
    /\ kube.calls[1].err = "cannot initialize kube"
    /\ kube.calls[2].err = "cannot init kubedog"
    /\ kube.calls[3].err = "nil" /\ kube.calls[3].invoked # <<>>
    /\ kube.calls[4].err = "nil" /\ kube.calls[4].invoked = <<>>

----------------------------------------------------------------------------
(* Properties of the first-run timestamp. *)

FirstRunLogOf(op) == {i \in 1 .. Len(firstRun.log) : firstRun.log[i].op = op}

\* C38: the existence check and the write of SetWerfFirstRunAt are made by
\* the process that holds the host lock of the path; the file is written
\* only when it does not exist, so a timestamp once written is never
\* replaced; and a process that has returned from the call does not hold
\* the lock.
C38_FirstRunWrittenOnce ==
    /\ \A i \in FirstRunLogOf("check") \cup FirstRunLogOf("write") :
          firstRun.log[i].holder = firstRun.log[i].by
    /\ \A i \in FirstRunLogOf("acquire") : firstRun.log[i].holder = "free"
    /\ \A i \in FirstRunLogOf("write") : firstRun.log[i].file = 0
    /\ Cardinality(FirstRunLogOf("write")) <= 1
    /\ \A i \in 1 .. Len(firstRun.log) :
          firstRun.log[i].file # 0 => firstRun.file = firstRun.log[i].file
    /\ \A p \in Procs :
          /\ firstRun.procs[p].pc = "idle" =>
                ~firstRun.procs[p].lock /\ firstRun.lock # p
          /\ firstRun.procs[p].lock <=> firstRun.lock = p

\* one process has written the timestamp and returned, the other has then
\* found the file under the lock and returned without writing, the lock free
C38_Witness ==
    /\ firstRun.file # 0
    /\ firstRun.lock = "free"
    /\ \E p, q \in Procs :
          /\ p # q
          /\ firstRun.procs[p].pc = "idle" /\ firstRun.procs[q].pc = "idle"
          /\ \E i \in FirstRunLogOf("write"), j \in FirstRunLogOf("check") :
                /\ firstRun.log[i].by = p
                /\ firstRun.log[j].by = q
                /\ i < j
                /\ firstRun.log[j].file = firstRun.file
          /\ firstRun.procs[q].exists
          /\ firstRun.procs[q].err = "nil"

\* a process waits for the lock while the other is between check and write
C38_WitnessWaiting ==
    \E p, q \in Procs :
        /\ firstRun.procs[p].pc = "WriteTimestampFile"
        /\ firstRun.procs[q].pc = "AcquireHostLock"

----------------------------------------------------------------------------
(* Properties of safeContainersCleanup. *)

CleanupEvents(op) == {i \in 1 .. Len(cleanup.events) : cleanup.events[i].op = op}

\* the containers the loop of a returned call has reached
CleanupReached ==
    {k \in 1 .. Len(cleanup.containers) :
        \A j \in 1 .. k - 1 :
            LET c == cleanup.containers[j]
            IN  containerNameFrom(c.Names, 1) # NoName =>
                   c.lock # "err" /\ ~(c.lock = "ok" /\ c.rm = "fail")}

\* C36: a container is removed only while the call holds the host lock of
\* that container, which it asked for without waiting; a container whose
\* lock another process holds is left alone, without an error, and the
\* containers after it are still processed; the lock of a container is
\* released before the lock of the next one is asked for and before the
\* call returns, also when the removal has failed.
C36_ContainerRemovedUnderItsLock ==
    cleanup.pc = "returned" =>
        /\ \A i \in CleanupEvents("containersRemove") :
              LET e == cleanup.events[i]
              IN  /\ e.lock \in e.held
                  /\ i > 1
                  /\ cleanup.events[i - 1].op = "AcquireHostLock"
                  /\ cleanup.events[i - 1].id = e.id
                  /\ \E k \in 1 .. Len(cleanup.containers) :
                        /\ cleanup.containers[k].ID = e.id
                        /\ cleanup.containers[k].lock = "ok"
        /\ \A i \in CleanupEvents("AcquireHostLock") : cleanup.events[i].held = {}
        /\ cleanup.held = {}
        /\ ~cleanup.listErr =>
              \A k \in CleanupReached :
                 LET c == cleanup.containers[k]
                 IN  containerNameFrom(c.Names, 1) # NoName =>
                        \E i \in CleanupEvents("AcquireHostLock") :
                            cleanup.events[i].id = c.ID
        /\ (~cleanup.listErr
            /\ \A k \in 1 .. Len(cleanup.containers) :
                  LET c == cleanup.containers[k]
                  IN  containerNameFrom(c.Names, 1) # NoName =>
                         c.lock = "held" \/ (c.lock = "ok" /\ c.rm = "ok"))
              => cleanup.err = "nil"

\* a container locked by another process is passed over, the next one is
\* removed under its lock, and the removal of the third fails
C36_Witness ==
    /\ cleanup.pc = "returned"
    /\ Len(cleanup.containers) = 3
    /\ cleanup.containers[1].lock = "held"
    /\ cleanup.err = "failed to remove container"
    /\ Cardinality(CleanupEvents("containersRemove")) = 2
    /\ Cardinality(CleanupEvents("ignore")) = 1
    /\ cleanup.held = {}

----------------------------------------------------------------------------
(* Properties of RunGCForLocalDockerServer. *)

\* C32 as stated: when RunGCForLocalDockerServer has returned, by any of its
\* exits, it holds none of the host locks it acquired for image references.
C32_ImageLocksReleasedOnEveryExit ==
    gc.pc = "returned" => gc.held = {}

\* C33 as stated: RunGCForLocalDockerServer returns, whatever the images
\* have for tags and however long the volume usage stays above the target.
C33_RunGCTerminates == <>(gc.pc = "returned")

GCEvents(ops) == {n \in 1 .. Len(gc.events) : gc.events[n].op \in ops}

\* the tag of the image of an event that has the reference of the event
GCTagOf(e) ==
    LET tags == gc.checkResult.ImagesDescs[e.i].ImageSummary.RepoTags
    IN  tags[CHOOSE n \in 1 .. Len(tags) : tags[n].ref = e.ref]

\* C34: docker rmi is run for a tagged reference only while the call holds
\* the host lock of that reference; when another process holds the lock, no
\* removal is made for the reference, the rest of the image is passed over
\* and the image is not counted as freed in that pass.
C34_RemovalOnlyUnderTheImageLock ==
    /\ \A n \in GCEvents({"CliRmi", "CliRmiFailed"}) :
          LET e == gc.events[n]
          IN  e.ref # NoneRef =>
                 /\ ImageLockName(e.ref) \in e.held
                 /\ GCTagOf(e).fate # "held"
    /\ \A n \in GCEvents({"skip"}) :
          LET e == gc.events[n]
          IN  /\ GCTagOf(e).fate = "held"
              /\ ImageLockName(e.ref) \notin e.held
              /\ \A m \in GCEvents({"CliRmi", "CliRmiFailed", "dryRun"}) :
                    gc.events[m].ref # e.ref
              /\ \A m \in GCEvents({"freed"}) : gc.events[m].i # e.i
              /\ \A m \in n + 1 .. Len(gc.events) : gc.events[m].i # e.i
    /\ \A n \in GCEvents({"freed"}) :
          \A t \in 1 .. Len(gc.checkResult.ImagesDescs[gc.events[n].i].ImageSummary.RepoTags) :
              gc.checkResult.ImagesDescs[gc.events[n].i].ImageSummary.RepoTags[t].fate
                  # "held"

\* the first tag of an image is removed under its lock, the second is held
\* by another process, and the pass goes on to free the next image
C34_Witness ==
    \E n, m, f \in 1 .. Len(gc.events) :
        /\ n < m /\ m < f
        /\ gc.events[n].op = "CliRmi" /\ gc.events[n].ref = "a:1"
        /\ gc.events[m].op = "skip" /\ gc.events[m].ref = "a:2"
        /\ gc.events[m].i = gc.events[n].i
        /\ gc.events[f].op = "freed"

\* the states after a pass over the images that came to its end
GCAfterPass ==
    gc.pc \in {"ReleaseHostLock", "safeContainersCleanup", "safeDanglingImagesCleanup",
               "check"}

\* C35: a pass takes the images from the least recently used on, and it
\* comes to its end before the last image of the list only when at least
\* MinImagesToDelete images are counted as freed and the freed bytes exceed
\* the bytes needed.
C35_PassStopsOnlyAfterMinImages ==
    /\ \A n, m \in 1 .. Len(gc.checkResult.ImagesDescs) :
          n < m => gc.checkResult.ImagesDescs[n].LastUsedAt
                      <= gc.checkResult.ImagesDescs[m].LastUsedAt
    /\ \A n, m \in 1 .. Len(gc.events) :
          n < m => /\ gc.events[n].i <= gc.events[m].i
                   /\ gc.events[n].LastUsedAt <= gc.events[m].LastUsedAt
    /\ GCAfterPass /\ gc.i < Len(gc.checkResult.ImagesDescs) =>
          /\ gc.freedImagesCount >= MinImagesToDelete
          /\ gc.freedBytes > gc.bytesToFree

\* the pass has stopped after the tenth image, two images left
C35_Witness ==
    /\ GCAfterPass
    /\ gc.i = MinImagesToDelete
    /\ gc.i < Len(gc.checkResult.ImagesDescs)
    /\ gc.freedImagesCount = MinImagesToDelete
    /\ gc.freedBytes > gc.bytesToFree

\* the bytes needed are freed, fewer than ten images are, the pass goes on
C35_WitnessGoesOn ==
    /\ gc.pc = "DeleteImages"
    /\ gc.freedImagesCount < MinImagesToDelete
    /\ gc.freedBytes > gc.bytesToFree
    /\ gc.i > 1

\* more than ten images are freed and the pass has gone on to the end of the
\* list, the bytes needed not being freed
C35_WitnessAfterTheTenth ==
    /\ GCAfterPass
    /\ gc.freedImagesCount > MinImagesToDelete
    /\ gc.freedBytes <= gc.bytesToFree
    /\ gc.i > Len(gc.checkResult.ImagesDescs)

============================================================================
